---- MODULE Spec2Model ----
(***************************************************************************)
(* State-machine model of the conversation platform: inbound channel       *)
(* events and the conversation identity mapping, the channel-aware         *)
(* execution orchestrator, and the task lifecycle manager.                 *)
(*                                                                         *)
(* The specifications share one state:                                     *)
(*   SpecInbound  - channel webhooks, handle_incoming_event, the mapping   *)
(*                  table and its uniqueness constraint;                   *)
(*   SpecChannel  - AgentExecutor.execute_with_channel_context;            *)
(*   SpecOrchestrator - all orchestrator paths: execute_sync, execute_async *)
(*                  and execute_with_channel_context;                      *)
(*   SpecSession  - SpecOrchestrator with execute_on_existing_conversation; *)
(*   SpecTask     - TaskManager.create_task / execute_task / disable_task; *)
(*                  FairSpecTask adds the fairness of the event loop;      *)
(*   SpecDisable  - SpecTask for tasks with one notification setup;        *)
(*   SpecCreate   - TaskManager.create_task, commit by commit;             *)
(*   SpecNotify   - executions and the notification fan-out;               *)
(*   SpecStatus   - the writers of a task row: create, execute, update;    *)
(*   SpecConfiguration - SpecDisable with update_task;                     *)
(*   SpecSchedule - SpecTask with scheduled tasks, the scheduler's jobs    *)
(*                  and the application start-up;                          *)
(*   SpecReply    - Slack interactions and send_to_adapter;                *)
(*   SpecWorker   - the worker's registry and process_conversation_job;   *)
(*   SpecJobs     - the scheduler's job store: load, schedule, unschedule;  *)
(*   SpecRunner   - validate_execution and the runners' execution paths;   *)
(*   SpecVerify   - verify_request of the Slack and email adapters.        *)
(***************************************************************************)
EXTENDS Integers, Sequences, FiniteSets, TLC

(***************************************************************************)
(* Bounds of the model.                                                    *)
(***************************************************************************)
MaxRequests == 2
MaxChunks == 3
MaxCalls == 2
MaxTasks == 1
MaxExecs == 2
MaxCreates == 2
MaxJobs == 2

Requests == 1..MaxRequests
Calls == 1..MaxCalls
Tasks == 1..MaxTasks
Execs == 1..MaxExecs
Creates == 1..MaxCreates
Jobs == 1..MaxJobs

\* External thread ids carried by inbound events (thread_ts, Message-ID,
\* trigger_id).
Threads == {"T1", "T2"}

\* Primary keys of the conversations table.  Every request and every task
\* creates at most one conversation.
ConvIds == 1..(MaxRequests + MaxTasks)

None == 0

VARIABLES
    registry,       \* _global_adapters: names of the registered adapters
    conversations,  \* committed rows of ConversationDB: id -> row
    mappings,       \* committed rows of ConversationChannelAdapterDB
    messages,       \* committed rows of MessageDB, in created_at order
    req,            \* inbound webhook requests, one record per request
    adapter,        \* the channel adapter handed to the orchestrator
    runner,         \* the runner handed to the orchestrator
    call,           \* execute_with_channel_context calls, one record per call
    tasks,          \* committed rows of TaskDB: id -> row
    exec,           \* execute_task calls, one record per call
    notifications,  \* terminal notifications fired, in order
    clock,          \* logical time read by datetime.now(UTC)
    scheduler,      \* APScheduler: the jobs of the job store, in order of insertion
    verification,   \* the latest verify_request call and its result
    creating,       \* create_task calls, one record per call
    execution,      \* the latest call of a runner's execute method
    reply,          \* the latest send_to_adapter call and its outcome
    worker,         \* the ARQ worker process: settings and its adapter registry
    jobs,           \* process_conversation_job runs, one record per job
    scheduling      \* the latest call of workers/scheduler.py and its outcome

vars == <<registry, conversations, mappings, messages, req,
          adapter, runner, call, tasks, exec, notifications, clock,
          scheduler, verification, creating, execution, reply, worker, jobs, scheduling>>

inboundVars == <<registry, mappings, req>>
channelVars == <<adapter, runner, call>>
taskVars == <<tasks, exec, notifications, clock, scheduler>>
verifyVars == <<verification>>
createVars == <<creating>>
runVars == <<execution>>
replyVars == <<reply>>
workerVars == <<worker, jobs>>
schedVars == <<scheduling>>

(***************************************************************************)
(* Storage helpers.                                                        *)
(***************************************************************************)

\* ConversationDB.id is a primary key: a new row gets an id no row has.
NewConvId == CHOOSE c \in ConvIds : c \notin DOMAIN conversations /\
                 \A d \in ConvIds : d \notin DOMAIN conversations => c <= d

\* ConversationManager.create_conversation: add the row and commit.
ConversationRow(pattern, adapterName, thread) ==
    [pattern_type |-> pattern, adapter_name |-> adapterName,
     initial_thread_id |-> thread, task_id |-> None]

\* MessageDB row as written by ConversationManager.add_message.
MessageRow(conv, role, content, by) ==
    [conversation_id |-> conv, role |-> role, content |-> content, by |-> by]

\* Rows of the mapping table that exist in the database: committed ones and
\* the ones flushed inside a transaction that is still open.
PendingRows == UNION {req[r].pend : r \in Requests}
AllMappingRows == mappings \cup PendingRows

\* adapter_metadata is the metadata of the event that created the row.
MappingRow(conv, adapterName, thread, by) ==
    [conversation_id |-> conv, adapter_name |-> adapterName,
     thread_id |-> thread, adapter_metadata |-> <<"metadata", by>>, by |-> by]

SameKey(row, adapterName, thread) ==
    row.adapter_name = adapterName /\ row.thread_id = thread

\* UniqueConstraint("adapter_name", "thread_id", name="uq_adapter_thread"):
\* the insert is rejected when a committed row holds the key.
UniqueViolationNone(adapterName, thread) == FALSE
UniqueViolation(adapterName, thread) ==
    \E row \in mappings : SameKey(row, adapterName, thread)

\* A row with the same key flushed by another open transaction makes the
\* insert wait until that transaction commits or rolls back.
InsertBlocked(r, adapterName, thread) ==
    \E r2 \in Requests \ {r} :
        \E row \in req[r2].pend : SameKey(row, adapterName, thread)

\* ForeignKey("conversations.id"): the row must refer to a conversation.
ForeignKeyViolation(conv) == conv \notin DOMAIN conversations

(***************************************************************************)
(* Inbound channel events.                                                 *)
(***************************************************************************)

AdapterNames == {"slack", "email"}
Kinds == {"email_webhook", "slack_events", "slack_interactions"}

AdapterOf(kind) == IF kind = "email_webhook" THEN "email" ELSE "slack"

IdleRequest ==
    [kind |-> "none", pc |-> "idle", shape |-> "ok", thread |-> "T1",
     lookup |-> "none", conv |-> None, created |-> FALSE, inserted |-> FALSE,
     raced |-> FALSE, pend |-> {}, hres |-> "none", error |-> "none",
     status |-> 0, configured |-> FALSE, verified |-> FALSE]

\* ChannelAdapterManager.register_adapter, called by initialize_adapters.
RegisterAdapter(name) ==
    /\ name \notin registry
    /\ \A r \in Requests : req[r].pc = "idle"
    /\ registry' = registry \cup {name}
    /\ UNCHANGED <<conversations, mappings, messages, req,
                   channelVars, taskVars, verifyVars, createVars, runVars, replyVars, workerVars, schedVars>>

\* A webhook request arrives.  slack_events and slack_interactions fetch the
\* adapter first and answer 500 when it is not registered.
Arrive(r, kind, shape, thread) ==
    /\ req[r].pc = "idle"
    /\ \A r0 \in Requests : r0 < r => req[r0].pc # "idle"
    /\ IF kind # "email_webhook" /\ "slack" \notin registry
       THEN req' = [req EXCEPT ![r] = [@ EXCEPT !.kind = kind, !.shape = shape,
                        !.thread = thread, !.pc = "done", !.status = 500]]
       ELSE req' = [req EXCEPT ![r] = [@ EXCEPT !.kind = kind, !.shape = shape,
                        !.thread = thread,
                        !.configured = AdapterOf(kind) \in registry,
                        !.pc = IF kind = "email_webhook" THEN "parse"
                               ELSE "verify"]]
    /\ UNCHANGED <<registry, conversations, mappings, messages,
                   channelVars, taskVars, verifyVars, createVars, runVars, replyVars, workerVars, schedVars>>

\* slack_events / slack_interactions: adapter.verify_request; 401 when the
\* request is not authentic.
Verify(r, isValid) ==
    /\ req[r].pc = "verify"
    /\ req' = [req EXCEPT ![r] =
                 IF ~isValid
                 THEN [@ EXCEPT !.pc = "done", !.status = 401]
                 ELSE [@ EXCEPT !.verified = TRUE,
                                !.pc = IF req[r].kind = "slack_events"
                                       THEN "parse" ELSE "interact"]]
    /\ UNCHANGED <<registry, conversations, mappings, messages,
                   channelVars, taskVars, verifyVars, createVars, runVars, replyVars, workerVars, schedVars>>

ParseAccepts(adapterName, shape) == FALSE
\* receive_message of the adapter: the Slack adapter raises ValueError for an
\* event whose shape it does not know; the email adapter parses any form.
ParseFails(adapterName, shape) == adapterName = "slack" /\ shape = "malformed"

\* handle_incoming_event, lines 82-88: get_adapter and receive_message.
Parse(r) ==
    /\ req[r].pc = "parse"
    /\ LET a == AdapterOf(req[r].kind) IN
       req' = [req EXCEPT ![r] =
                 IF a \notin registry
                 THEN [@ EXCEPT !.pc = "ended", !.hres = "raised",
                                !.error = "KeyError"]
                 ELSE IF ParseFails(a, @.shape)
                 THEN [@ EXCEPT !.pc = "ended", !.hres = "raised",
                                !.error = "ValueError"]
                 ELSE [@ EXCEPT !.pc = "lookup"]]
    /\ UNCHANGED <<registry, conversations, mappings, messages,
                   channelVars, taskVars, verifyVars, createVars, runVars, replyVars, workerVars, schedVars>>

\* _get_conversation_mapping: the conversation id of the committed row for
\* (adapter_name, thread_id), or None.
GetConversationMapping(adapterName, thread) ==
    IF \E row \in mappings : SameKey(row, adapterName, thread)
    THEN (CHOOSE row \in mappings : SameKey(row, adapterName, thread)).conversation_id
    ELSE None

\* Requests other than r that handle an event for the same key, have
\* found no mapping either and are still inside handle_incoming_event.
RacingMisses(r) ==
    {r2 \in Requests \ {r} :
        /\ req[r2].kind \in {"email_webhook", "slack_events"}
        /\ AdapterOf(req[r2].kind) = AdapterOf(req[r].kind)
        /\ req[r2].thread = req[r].thread
        /\ req[r2].lookup = "miss"
        /\ req[r2].pc \in {"create", "store", "addmsg"}}

\* handle_incoming_event, lines 90-96.  The field raced records, for the
\* properties only, that two calls interleaved after both lookups missed.
Lookup(r) ==
    /\ req[r].pc = "lookup"
    /\ LET found == GetConversationMapping(AdapterOf(req[r].kind), req[r].thread)
           others == RacingMisses(r)
       IN req' = [x \in Requests |->
                 IF x = r
                 THEN IF found # None
                      THEN [req[r] EXCEPT !.lookup = "hit", !.conv = found,
                                          !.pc = "addmsg"]
                      ELSE [req[r] EXCEPT !.lookup = "miss", !.pc = "create",
                                          !.raced = others # {}]
                 ELSE IF found = None /\ x \in others
                      THEN [req[x] EXCEPT !.raced = TRUE]
                      ELSE req[x]]
    /\ UNCHANGED <<registry, conversations, mappings, messages,
                   channelVars, taskVars, verifyVars, createVars, runVars, replyVars, workerVars, schedVars>>

\* handle_incoming_event, lines 97-108: create_conversation commits the row.
CreateConversation(r) ==
    /\ req[r].pc = "create"
    /\ LET c == NewConvId IN
       /\ conversations' = conversations @@
            (c :> ConversationRow("channel_adapter", AdapterOf(req[r].kind),
                                  req[r].thread))
       /\ req' = [req EXCEPT ![r] = [@ EXCEPT !.conv = c, !.created = TRUE,
                                       !.pc = "store"]]
    /\ UNCHANGED <<registry, mappings, messages, channelVars, taskVars, verifyVars, createVars, runVars, replyVars, workerVars, schedVars>>

\* _store_conversation_mapping: add the row and flush.  The flush raises
\* IntegrityError when a constraint rejects the row; the row stays inside
\* the request's open transaction otherwise.
StoreConversationMapping(r, conv, adapterName, thread) ==
    /\ ~InsertBlocked(r, adapterName, thread)
    /\ req' = [req EXCEPT ![r] =
                 IF ForeignKeyViolation(conv) \/ UniqueViolation(adapterName, thread)
                 THEN [@ EXCEPT !.pc = "ended", !.hres = "raised",
                                !.error = "IntegrityError"]
                 ELSE [@ EXCEPT !.pend = @ \cup {MappingRow(conv, adapterName, thread, r)},
                                !.inserted = TRUE,
                                !.pc = IF req[r].kind = "slack_interactions"
                                       THEN "ended" ELSE "addmsg",
                                !.hres = IF req[r].kind = "slack_interactions"
                                         THEN "returned" ELSE @]]

\* handle_incoming_event, lines 110-118.
StoreMapping(r) ==
    /\ req[r].pc = "store"
    /\ StoreConversationMapping(r, req[r].conv, AdapterOf(req[r].kind), req[r].thread)
    /\ UNCHANGED <<registry, conversations, mappings, messages,
                   channelVars, taskVars, verifyVars, createVars, runVars, replyVars, workerVars, schedVars>>

\* Parameters of ConversationManager.add_message after self.
AddMessageParams ==
    {"conversation_id", "role", "content", "tool_calls", "tool_results"}

\* Keyword arguments handle_incoming_event passes to add_message.
IncomingEventAddMessageArgs ==
    {"conversation_id", "role", "content", "adapter_name", "adapter_message_id"}

\* A call binds only when every keyword names a parameter; Python raises
\* TypeError otherwise, before the body runs.
CallBinds(args, params) == args \subseteq params

\* handle_incoming_event, lines 120-129: add_message, then return the
\* conversation id.  add_message commits the session, which also commits a
\* mapping row flushed before.
AddMessage(r) ==
    /\ req[r].pc = "addmsg"
    /\ IF CallBinds(IncomingEventAddMessageArgs, AddMessageParams)
       THEN /\ messages' = Append(messages,
                               MessageRow(req[r].conv, "user", <<0>>, <<"req", r>>))
            /\ mappings' = mappings \cup req[r].pend
            /\ req' = [req EXCEPT ![r] = [@ EXCEPT !.pend = {}, !.pc = "ended",
                                            !.hres = "returned"]]
       ELSE /\ req' = [req EXCEPT ![r] = [@ EXCEPT !.pc = "ended",
                                            !.hres = "raised",
                                            !.error = "TypeError"]]
            /\ UNCHANGED <<messages, mappings, verifyVars, createVars, runVars, replyVars, workerVars, schedVars>>
    /\ UNCHANGED <<registry, conversations, channelVars, taskVars, verifyVars, createVars, runVars, replyVars, workerVars, schedVars>>

\* SlackChannelAdapter.handle_interaction and _extract_conversation_id: a
\* payload without actions raises ValueError; the conversation id of the
\* response is a fresh uuid4.
Interact(r, uuid) ==
    /\ req[r].pc = "interact"
    /\ IF req[r].shape = "malformed"
       THEN req' = [req EXCEPT ![r] = [@ EXCEPT !.pc = "ended", !.hres = "raised",
                                         !.error = "ValueError"]]
       ELSE StoreConversationMapping(r, uuid, "slack", req[r].thread)
    /\ UNCHANGED <<registry, conversations, mappings, messages,
                   channelVars, taskVars, verifyVars, createVars, runVars, replyVars, workerVars, schedVars>>

\* HTTP status the endpoint answers with once the handler has ended.
\* email_webhook catches every exception and answers 200; slack_events and
\* slack_interactions map ValueError to 400 and let the rest propagate.
ResponseStatus(kind, hres, error) ==
    IF hres = "returned" \/ kind = "email_webhook" THEN 200
    ELSE IF error = "ValueError" THEN 400
    ELSE 500

\* The endpoint returns and the request's database session is closed.
\* email_webhook commits after a handler that returned.  The session
\* dependency either commits or discards what is still open when the
\* endpoint returned normally, and discards it when the endpoint raised.
EndRequest(r, commitOnClose) ==
    /\ req[r].pc = "ended"
    /\ LET st == ResponseStatus(req[r].kind, req[r].hres, req[r].error)
           keep == /\ req[r].error # "IntegrityError"
                   /\ \/ (req[r].kind = "email_webhook" /\ req[r].hres = "returned")
                      \/ (st = 200 /\ commitOnClose)
       IN /\ mappings' = IF keep THEN mappings \cup req[r].pend ELSE mappings
          /\ req' = [req EXCEPT ![r] = [@ EXCEPT !.pend = {}, !.pc = "done",
                                          !.status = st]]
    /\ UNCHANGED <<registry, conversations, messages, channelVars, taskVars, verifyVars, createVars, runVars, replyVars, workerVars, schedVars>>

NextInbound ==
    \/ \E name \in AdapterNames : RegisterAdapter(name)
    \/ \E r \in Requests, kind \in Kinds, shape \in {"ok", "malformed"},
          thread \in Threads : Arrive(r, kind, shape, thread)
    \/ \E r \in Requests, isValid \in BOOLEAN : Verify(r, isValid)
    \/ \E r \in Requests : Parse(r)
    \/ \E r \in Requests : Lookup(r)
    \/ \E r \in Requests : CreateConversation(r)
    \/ \E r \in Requests : StoreMapping(r)
    \/ \E r \in Requests : AddMessage(r)
    \/ \E r \in Requests, uuid \in ConvIds : Interact(r, uuid)
    \/ \E r \in Requests, commitOnClose \in BOOLEAN : EndRequest(r, commitOnClose)

(***************************************************************************)
(* Outbound replies: ChannelAdapterManager.send_to_adapter.                *)
(***************************************************************************)

IdleSend ==
    [conversation_id |-> None, adapter_name |-> "none", result |-> "none",
     sent |-> <<>>]

\* _get_adapter_mapping: the committed rows the select matches; the caller
\* gets the first of them, or None when there is none.
GetAdapterMappingOfAnyAdapter(conv, adapterName) ==
    {row \in mappings : row.conversation_id = conv}
GetAdapterMapping(conv, adapterName) ==
    {row \in mappings : row.conversation_id = conv /\ row.adapter_name = adapterName}

\* The keyword arguments of the adapter's send_message call.
SendMessageCall(conv, mapping) ==
    [conversation_id |-> conv, thread_id |-> mapping.thread_id,
     metadata |-> mapping.adapter_metadata]

\* send_to_adapter: get_adapter raises KeyError for an unregistered name; a
\* missing mapping raises ValueError; otherwise send_message is awaited once
\* and its exception, if any, propagates.
SendToAdapter(conv, adapterName, ok) ==
    /\ LET found == GetAdapterMapping(conv, adapterName)
           this == [IdleSend EXCEPT !.conversation_id = conv,
                                    !.adapter_name = adapterName]
       IN IF adapterName \notin registry
          THEN reply' = [this EXCEPT !.result = "KeyError"]
          ELSE IF found = {}
          THEN reply' = [this EXCEPT !.result = "ValueError"]
          ELSE \E mapping \in found :
                 reply' = [this EXCEPT !.sent = <<SendMessageCall(conv, mapping)>>,
                                       !.result = IF ok THEN "returned" ELSE "raised"]
    /\ UNCHANGED <<registry, conversations, mappings, messages, req,
                   channelVars, taskVars, verifyVars, createVars, runVars, workerVars, schedVars>>

(***************************************************************************)
(* The ARQ worker process and process_conversation_job.  The worker has    *)
(* its own _global_adapters; up to max_worker_jobs jobs run interleaved on *)
(* its event loop.                                                         *)
(***************************************************************************)

\* No adapter object is registered under a name.
NoAdapter == 0

\* The worker process before it runs: settings are read when the module is
\* imported; _global_adapters is the empty dict.
WorkerDown ==
    [up |-> FALSE, settings |-> {}, adapters |-> [n \in AdapterNames |-> NoAdapter],
     made |-> 0]

IdleJob ==
    [pc |-> "idle", adapter_name |-> "none", registered |-> <<>>, used |-> NoAdapter,
     result |-> "none"]

\* The worker process starts; settings names the adapters whose credentials
\* the environment holds.
WorkerStart(settings) ==
    /\ ~worker.up
    /\ worker' = [worker EXCEPT !.up = TRUE, !.settings = settings]
    /\ UNCHANGED <<jobs, registry, conversations, mappings, messages, req,
                   channelVars, taskVars, verifyVars, createVars, runVars, replyVars, schedVars>>

\* initialize_adapters: a new adapter object is constructed and registered
\* under the name of every adapter the settings configure.
InitializeAdapters(w) ==
    [n \in AdapterNames |-> IF n \in w.settings THEN w.made + 1 ELSE w.adapters[n]]

\* process_conversation_job, lines 59-61: the job starts and calls
\* initialize_adapters.  adapterName is the adapter_name of the context data
\* of the job's conversation.
JobInitializeAdapters(j, adapterName) ==
    /\ worker.up
    /\ jobs[j].pc = "idle"
    /\ \A j0 \in Jobs : j0 < j => jobs[j0].pc # "idle"
    /\ LET after == InitializeAdapters(worker) IN
       /\ worker' = [worker EXCEPT !.adapters = after, !.made = @ + 1]
       /\ jobs' = [jobs EXCEPT ![j] = [@ EXCEPT !.pc = "running",
                                                !.adapter_name = adapterName,
                                                !.registered = <<after>>]]
    /\ UNCHANGED <<registry, conversations, mappings, messages, req,
                   channelVars, taskVars, verifyVars, createVars, runVars, replyVars, schedVars>>

\* process_conversation_job, lines 63-107: after the agent has answered,
\* get_adapter reads the registry and the response goes out through the
\* adapter object it returns; KeyError is logged.
JobRespond(j) ==
    /\ jobs[j].pc = "running"
    /\ LET found == worker.adapters[jobs[j].adapter_name] IN
       jobs' = [jobs EXCEPT ![j] =
                  [@ EXCEPT !.pc = "done", !.used = found,
                            !.result = IF found = NoAdapter THEN "KeyError"
                                       ELSE "sent"]]
    /\ UNCHANGED <<worker, registry, conversations, mappings, messages, req,
                   channelVars, taskVars, verifyVars, createVars, runVars, replyVars, schedVars>>

\* process_conversation_job, lines 68-71: the conversation of the job is
\* not in the database; the job logs the error and returns.
JobConversationNotFound(j) ==
    /\ jobs[j].pc = "running"
    /\ jobs' = [jobs EXCEPT ![j] = [@ EXCEPT !.pc = "done", !.result = "not_found"]]
    /\ UNCHANGED <<worker, registry, conversations, mappings, messages, req,
                   channelVars, taskVars, verifyVars, createVars, runVars, replyVars, schedVars>>

NextWorker ==
    \/ \E settings \in SUBSET AdapterNames : WorkerStart(settings)
    \/ \E j \in Jobs, adapterName \in AdapterNames : JobInitializeAdapters(j, adapterName)
    \/ \E j \in Jobs : JobRespond(j)
    \/ \E j \in Jobs : JobConversationNotFound(j)

(***************************************************************************)
(* The channel-aware orchestrator path.                                    *)
(*                                                                         *)
(* Text is a sequence of symbols.  The k-th chunk a runner yields is the   *)
(* one-symbol text <<k>>, so the position of every chunk can be read off   *)
(* any text built from chunks; the orchestrator never inspects content.    *)
(***************************************************************************)

NoMessageId == 0      \* Python None
EmptyMessageId == -1  \* the empty string, which Python treats as false

ChunkAt(k) == <<k>>

RECURSIVE CompleteResult(_)
\* What a runner that produces n chunks returns from execute_non_streaming.
CompleteResult(n) == IF n = 0 THEN <<>> ELSE CompleteResult(n - 1) \o ChunkAt(n)

\* AdapterCapabilities of the adapter object, the optional mixins its class
\* inherits, whether its send_message returns an empty id, and (Slack
\* adapter) the _streaming_messages buffer.
UnconfiguredAdapter ==
    [configured |-> FALSE, supports_streaming |-> FALSE,
     supports_reactions |-> FALSE, streaming_capable |-> FALSE,
     reaction_capable |-> FALSE, empty_ids |-> FALSE,
     streaming_messages |-> <<>>]

\* RunnerCapabilities of the runner object and the sessions it has open.
UnconfiguredRunner ==
    [configured |-> FALSE, supports_streaming |-> FALSE, sessions |-> 0]

IdleCall ==
    [pc |-> "idle", path |-> "none", conv |-> None, streaming |-> FALSE,
     pulled |-> 0, full_response |-> <<>>, message_id |-> NoMessageId,
     log |-> <<>>]

Event(op, text, id, ok) == [op |-> op, text |-> text, id |-> id, ok |-> ok]

\* An adapter object and a runner object are constructed: any descriptor
\* with any set of mixins.
ConfigureChannel(capsStreaming, capsReactions, isStreaming, isReaction, emptyIds, runnerStreaming) ==
    /\ ~adapter.configured
    /\ adapter' = [adapter EXCEPT !.configured = TRUE,
                                  !.supports_streaming = capsStreaming,
                                  !.supports_reactions = capsReactions,
                                  !.streaming_capable = isStreaming,
                                  !.reaction_capable = isReaction,
                                  !.empty_ids = emptyIds]
    /\ runner' = [runner EXCEPT !.configured = TRUE,
                                !.supports_streaming = runnerStreaming]
    /\ UNCHANGED <<conversations, messages, call, inboundVars, taskVars, verifyVars, createVars, runVars, replyVars, workerVars, schedVars>>

\* api/conversations.py create_conversation: a conversation to talk in.
OpenConversation ==
    /\ DOMAIN conversations = {}
    /\ conversations' = conversations @@
         (NewConvId :> ConversationRow("channel_adapter", "slack", "T1"))
    /\ UNCHANGED <<messages, channelVars, inboundVars, taskVars,
                   scheduler, verifyVars, createVars, runVars, replyVars, workerVars, schedVars>>

\* add_message(conversation_id, MessageRole.USER, user_message): the first
\* statement of every orchestrator path.
AddNoUserMessage(msgs, conv, by) == msgs
AddUserMessage(msgs, conv, by) == Append(msgs, MessageRow(conv, "user", <<0>>, by))

\* execute_with_channel_context, lines 210-216: read the capabilities and
\* persist the user message.
StartCall(c, conv) ==
    /\ call[c].pc = "idle"
    /\ \A c0 \in Calls : c0 < c => call[c0].pc # "idle"
    /\ adapter.configured
    /\ conv \in DOMAIN conversations
    /\ messages' = AddUserMessage(messages, conv, <<"call", c>>)
    /\ call' = [call EXCEPT ![c] =
                  [@ EXCEPT !.pc = "history", !.path = "channel", !.conv = conv,
                            !.log = Append(@, Event("add_message_user", <<0>>,
                                                    NoMessageId, TRUE))]]
    /\ UNCHANGED <<conversations, adapter, runner, inboundVars, taskVars, verifyVars, createVars, runVars, replyVars, workerVars, schedVars>>

\* Lines 232-236: the streaming branch is taken when the adapter advertises
\* streaming, the runner advertises streaming and the adapter's class
\* inherits StreamingCapable.
TakesStreamingPathIgnoringCaps(a, r) ==
    r.supports_streaming /\ a.streaming_capable
TakesStreamingPath(a, r) ==
    a.supports_streaming /\ r.supports_streaming /\ a.streaming_capable

\* AgentRunner.session used with "async with": the block is entered, and
\* left on every way out of it, by return or by exception.
EnterRunnerSession(r) == [r EXCEPT !.sessions = @ + 1]
ExitSessionSkipped(r) == r
ExitSession(r) == [r EXCEPT !.sessions = @ - 1]

\* Lines 218-247: load the history, enter the runner session, choose the
\* branch; execute_streaming is called when the streaming branch is taken.
EnterSession(c) ==
    /\ call[c].pc = "history"
    /\ runner' = EnterRunnerSession(runner)
    /\ call' = [call EXCEPT ![c] =
                  IF TakesStreamingPath(adapter, runner)
                  THEN [@ EXCEPT !.pc = "pull", !.streaming = TRUE,
                                 !.log = Append(@, Event("execute_streaming", <<>>,
                                                         NoMessageId, TRUE))]
                  ELSE [@ EXCEPT !.pc = "execute"]]
    /\ UNCHANGED <<conversations, messages, adapter, inboundVars, taskVars, verifyVars, createVars, runVars, replyVars, workerVars, schedVars>>

\* Line 249: full_response += chunk.content.
AccumulateLastChunkOnly(full, chunk) == chunk
Accumulate(full, chunk) == full \o chunk

\* Lines 248-249: the next step of `async for chunk in stream`: the runner
\* yields its next chunk, ends the stream, or raises.
Pull(c, outcome) ==
    /\ call[c].pc = "pull"
    /\ outcome = "chunk" => call[c].pulled < MaxChunks
    /\ call' = [call EXCEPT ![c] =
                  CASE outcome = "chunk" ->
                         [@ EXCEPT !.pc = "deliver", !.pulled = @ + 1,
                                   !.full_response =
                                       Accumulate(@, ChunkAt(call[c].pulled + 1))]
                    [] outcome = "end" -> [@ EXCEPT !.pc = "complete"]
                    [] OTHER -> [@ EXCEPT !.pc = "raised"]]
    /\ runner' = IF outcome = "raise"
                 THEN ExitSession(runner) ELSE runner
    /\ UNCHANGED <<conversations, messages, adapter, inboundVars, taskVars, verifyVars, createVars, runVars, replyVars, workerVars, schedVars>>

\* SlackChannelAdapter.stream_message_chunk: create or append the entry of
\* the message id in _streaming_messages.
StreamMessageChunk(buffer, id, chunk) ==
    IF id \in DOMAIN buffer
    THEN [buffer EXCEPT ![id] = @ \o chunk]
    ELSE buffer @@ (id :> chunk)

\* The id send_message returns to call c.
SentId(a, c) == IF a.empty_ids THEN EmptyMessageId ELSE c

\* Lines 251-263: the first chunk goes through send_message, whose return
\* value becomes message_id; later chunks go through stream_message_chunk.
\* Either adapter call may raise; the exception leaves the loop and the
\* method.
AfterSendIgnoringFailure(ok) == "pull"
AfterSend(ok) == IF ok THEN "pull" ELSE "raised"

Deliver(c, ok) ==
    /\ call[c].pc = "deliver"
    /\ LET chunk == ChunkAt(call[c].pulled)
           first == call[c].message_id = NoMessageId
           id == IF first THEN SentId(adapter, c) ELSE call[c].message_id
       IN /\ call' = [call EXCEPT ![c] =
                        [@ EXCEPT !.pc = AfterSend(ok),
                                  !.message_id = IF first /\ ok THEN id ELSE @,
                                  !.log = Append(@,
                                      IF first
                                      THEN Event("send_message", chunk,
                                                 IF ok THEN id ELSE NoMessageId, ok)
                                      ELSE Event("stream_message_chunk", chunk,
                                                 call[c].message_id, ok))]]
          /\ adapter' = IF ~first /\ ok
                        THEN [adapter EXCEPT !.streaming_messages =
                                StreamMessageChunk(@, id, chunk)]
                        ELSE adapter
    /\ runner' = IF ok THEN runner ELSE ExitSession(runner)
    /\ UNCHANGED <<conversations, messages, inboundVars, taskVars, verifyVars, createVars, runVars, replyVars, workerVars, schedVars>>

\* Python truth value of message_id.
Truthy(id) == id # NoMessageId /\ id # EmptyMessageId

\* Line 266: the completion reaction is added when the adapter's class
\* inherits ReactionCapable and message_id is true.
AddsReaction(a, id) == a.reaction_capable /\ Truthy(id)

\* Lines 265-267 and the exit of the session block after the stream ended.
MarkComplete(c, ok) ==
    /\ call[c].pc = "complete"
    /\ ~AddsReaction(adapter, call[c].message_id) => ok
    /\ call' = [call EXCEPT ![c] =
                  [@ EXCEPT !.pc = IF ok THEN "persist" ELSE "raised",
                            !.log = IF AddsReaction(adapter, call[c].message_id)
                                    THEN Append(@, Event("add_reaction", <<>>,
                                                         call[c].message_id, ok))
                                    ELSE @]]
    /\ runner' = ExitSession(runner)
    /\ UNCHANGED <<conversations, messages, adapter, inboundVars, taskVars, verifyVars, createVars, runVars, replyVars, workerVars, schedVars>>

\* The lengths of the results execute_non_streaming returns: the empty text
\* and the text of MaxChunks symbols.
ResultLengths == {0, MaxChunks}

\* Where a call goes after awaiting execute_non_streaming: on to its next
\* statement, or out of the method with the exception of the runner, which
\* no orchestrator path catches.
AfterRunIgnoringFailure(ok, next) == next
AfterRun(ok, next) == IF ok THEN next ELSE "raised"

\* Lines 269-275: execute_non_streaming returns the complete result or
\* raises.
ExecuteNonStreaming(c, ok, n) ==
    /\ call[c].pc = "execute"
    /\ call' = [call EXCEPT ![c] =
                  [@ EXCEPT !.pc = AfterRun(ok, "send"),
                            !.pulled = IF ok THEN n ELSE @,
                            !.full_response = IF ok THEN CompleteResult(n) ELSE @,
                            !.log = Append(@, Event("execute_non_streaming", <<>>,
                                                    NoMessageId, ok))]]
    /\ runner' = IF ok THEN runner ELSE ExitSession(runner)
    /\ UNCHANGED <<conversations, messages, adapter, inboundVars, taskVars, verifyVars, createVars, runVars, replyVars, workerVars, schedVars>>

\* Lines 277-282 and the exit of the session block: send the complete
\* result once.
SendComplete(c, ok) ==
    /\ call[c].pc = "send"
    /\ call' = [call EXCEPT ![c] =
                  [@ EXCEPT !.pc = IF ok THEN "persist" ELSE "raised",
                            !.log = Append(@, Event("send_message",
                                                    call[c].full_response,
                                                    IF ok THEN SentId(adapter, c)
                                                    ELSE NoMessageId,
                                                    ok))]]
    /\ runner' = ExitSession(runner)
    /\ UNCHANGED <<conversations, messages, adapter, inboundVars, taskVars, verifyVars, createVars, runVars, replyVars, workerVars, schedVars>>

\* Lines 284-289: persist the assistant message and return.
PersistResponse(c) ==
    /\ call[c].pc = "persist"
    /\ messages' = Append(messages,
                     MessageRow(call[c].conv, "assistant", call[c].full_response,
                                <<"call", c>>))
    /\ call' = [call EXCEPT ![c] =
                  [@ EXCEPT !.pc = "returned",
                            !.log = Append(@, Event("add_message_assistant",
                                                    call[c].full_response,
                                                    NoMessageId, TRUE))]]
    /\ UNCHANGED <<conversations, adapter, runner, inboundVars, taskVars, verifyVars, createVars, runVars, replyVars, workerVars, schedVars>>

\* The steps of one execute_with_channel_context call.
ChannelCallStep ==
    \/ \E c \in Calls, conv \in ConvIds : StartCall(c, conv)
    \/ \E c \in Calls : EnterSession(c)
    \/ \E c \in Calls, outcome \in {"chunk", "end", "raise"} : Pull(c, outcome)
    \/ \E c \in Calls, ok \in BOOLEAN : Deliver(c, ok)
    \/ \E c \in Calls, ok \in BOOLEAN : MarkComplete(c, ok)
    \/ \E c \in Calls, ok \in BOOLEAN, n \in ResultLengths :
          ExecuteNonStreaming(c, ok, n)
    \/ \E c \in Calls, ok \in BOOLEAN : SendComplete(c, ok)
    \/ \E c \in Calls : PersistResponse(c)

NextChannel ==
    \/ \E cs, cr, isS, isR, ids, rs \in BOOLEAN :
          ConfigureChannel(cs, cr, isS, isR, ids, rs)
    \/ OpenConversation
    \/ ChannelCallStep


(***************************************************************************)
(* The orchestrator paths without a channel: execute_sync (the caller      *)
(* iterates the chunks) and execute_async (background, non-streaming).     *)
(***************************************************************************)

DirectPaths == {"sync", "async"}

\* execute_sync line 59, execute_async line 110: persist the user message.
StartExecute(c, conv, path) ==
    /\ call[c].pc = "idle"
    /\ \A c0 \in Calls : c0 < c => call[c0].pc # "idle"
    /\ runner.configured
    /\ conv \in DOMAIN conversations
    /\ messages' = AddUserMessage(messages, conv, <<"call", c>>)
    /\ call' = [call EXCEPT ![c] =
                  [@ EXCEPT !.pc = "loaded", !.path = path, !.conv = conv,
                            !.log = Append(@, Event("add_message_user", <<0>>,
                                                    NoMessageId, TRUE))]]
    /\ UNCHANGED <<conversations, adapter, runner, inboundVars, taskVars, verifyVars, createVars, runVars, replyVars, workerVars, schedVars>>

\* execute_sync lines 62-80, execute_async lines 113-120: load the history
\* and enter the runner session; execute_sync calls execute_streaming
\* whatever the runner advertises.
EnterExecute(c) ==
    /\ call[c].pc = "loaded"
    /\ runner' = EnterRunnerSession(runner)
    /\ call' = [call EXCEPT ![c] =
                  IF call[c].path = "sync"
                  THEN [@ EXCEPT !.pc = "iterate", !.streaming = TRUE,
                                 !.log = Append(@, Event("execute_streaming", <<>>,
                                                         NoMessageId, TRUE))]
                  ELSE [@ EXCEPT !.pc = "run"]]
    /\ UNCHANGED <<conversations, messages, adapter, inboundVars, taskVars, verifyVars, createVars, runVars, replyVars, workerVars, schedVars>>

\* execute_sync lines 81-89: where the generator goes when its loop is left.
\* The statement that saves the assistant message follows the loop, outside
\* any try/finally: it runs when the stream ends, and is skipped when the
\* runner raises or the generator is closed at its yield.
LoopExit(outcome) == CASE outcome = "end" -> "stream_end" [] outcome = "raise" -> "stream_raise" [] OTHER -> "generator_close"
AfterIterateAlwaysSaves(outcome) == "save"
AfterIterate(outcome) == CASE outcome = "end" -> "save" [] outcome = "raise" -> "raised" [] OTHER -> "closed"

\* execute_sync lines 81-83: the caller asks for the next chunk; the runner
\* yields one, ends the stream or raises, or the caller stops iterating and
\* closes the generator.  A runner that does not support streaming yields
\* nothing: its validate_execution raises at the first request.
Iterate(c, outcome) ==
    /\ call[c].pc = "iterate"
    /\ outcome = "chunk" => call[c].pulled < MaxChunks
    /\ outcome \in {"chunk", "end"} => runner.supports_streaming
    /\ call' = [call EXCEPT ![c] =
                  CASE outcome = "chunk" ->
                         [@ EXCEPT !.pulled = @ + 1,
                                   !.full_response =
                                       Accumulate(@, ChunkAt(call[c].pulled + 1))]
                    [] OTHER ->
                         [@ EXCEPT !.pc = AfterIterate(outcome),
                                   !.log = Append(@, Event(LoopExit(outcome), <<>>,
                                                           NoMessageId,
                                                           outcome = "end"))]]
    /\ runner' = IF outcome \in {"chunk", "end"}
                 THEN IF outcome = "end"
                      THEN ExitSession(runner) ELSE runner
                 ELSE ExitSession(runner)
    /\ UNCHANGED <<conversations, messages, adapter, inboundVars, taskVars, verifyVars, createVars, runVars, replyVars, workerVars, schedVars>>

\* execute_async lines 119-126: execute_non_streaming inside the session.
RunBackground(c, ok, n) ==
    /\ call[c].pc = "run"
    /\ call' = [call EXCEPT ![c] =
                  [@ EXCEPT !.pc = AfterRun(ok, "save"),
                            !.pulled = IF ok THEN n ELSE @,
                            !.full_response = IF ok THEN CompleteResult(n) ELSE @,
                            !.log = Append(@, Event("execute_non_streaming", <<>>,
                                                    NoMessageId, ok))]]
    /\ runner' = ExitSession(runner)
    /\ UNCHANGED <<conversations, messages, adapter, inboundVars, taskVars, verifyVars, createVars, runVars, replyVars, workerVars, schedVars>>

\* execute_sync lines 85-89, execute_async lines 128-133: persist the
\* assistant message.
SaveResponse(c) ==
    /\ call[c].pc = "save"
    /\ messages' = Append(messages,
                     MessageRow(call[c].conv, "assistant", call[c].full_response,
                                <<"call", c>>))
    /\ call' = [call EXCEPT ![c] =
                  [@ EXCEPT !.pc = "returned",
                            !.log = Append(@, Event("add_message_assistant",
                                                    call[c].full_response,
                                                    NoMessageId, TRUE))]]
    /\ UNCHANGED <<conversations, adapter, runner, inboundVars, taskVars, verifyVars, createVars, runVars, replyVars, workerVars, schedVars>>

\* The last user message of the conversation, if any:
\* execute_on_existing_conversation takes it as the prompt.
HasUserMessage(conv) ==
    \E i \in DOMAIN messages : /\ messages[i].conversation_id = conv
                                /\ messages[i].role = "user"

\* execute_on_existing_conversation, lines 151-168: no message is added;
\* ValueError when the conversation has no user message.
StartExisting(c, conv) ==
    /\ call[c].pc = "idle"
    /\ \A c0 \in Calls : c0 < c => call[c0].pc # "idle"
    /\ runner.configured
    /\ conv \in DOMAIN conversations
    /\ call' = [call EXCEPT ![c] =
                  [@ EXCEPT !.pc = IF HasUserMessage(conv) THEN "loaded"
                                   ELSE "raised",
                            !.path = "existing", !.conv = conv]]
    /\ UNCHANGED <<conversations, messages, adapter, runner, inboundVars, taskVars,
                   verifyVars, createVars, runVars, replyVars, workerVars, schedVars>>

NextExecute ==
    \/ \E c \in Calls, conv \in ConvIds, path \in DirectPaths :
          StartExecute(c, conv, path)
    \/ \E c \in Calls : EnterExecute(c)
    \/ \E c \in Calls, outcome \in {"chunk", "end", "raise", "close"} :
          Iterate(c, outcome)
    \/ \E c \in Calls, ok \in BOOLEAN, n \in ResultLengths : RunBackground(c, ok, n)
    \/ \E c \in Calls : SaveResponse(c)

\* The calls that are inside their "async with self.runner.session()" block.
InSession ==
    {c \in Calls : call[c].pc \in {"pull", "deliver", "complete", "execute",
                                    "send", "iterate", "run"}}

\* Every orchestrator path, with the two adapters of the repository: the
\* Slack adapter (every facet advertised and implemented) and the email
\* adapter (none of them).
NextOrchestrator ==
    \/ \E isSlack, rs \in BOOLEAN :
          ConfigureChannel(isSlack, isSlack, isSlack, isSlack, FALSE, rs)
    \/ OpenConversation
    \/ ChannelCallStep
    \/ NextExecute

\* The orchestrator paths and execute_on_existing_conversation.
NextSession ==
    \/ NextOrchestrator
    \/ \E c \in Calls, conv \in ConvIds : StartExisting(c, conv)

(***************************************************************************)
(* The task lifecycle: create_task, execute_task, disable_task and the     *)
(* notification fan-out.  Time is a logical clock that advances at every   *)
(* datetime.now(UTC) stamp.                                                *)
(***************************************************************************)

NoError == "none"

\* NotificationConfig of a task: the channels in order, and the channels
\* whose address (email address, webhook url) is set.
NotificationConfigs ==
    { [channels |-> <<>>, addressed |-> {}],
      [channels |-> <<"email", "slack">>, addressed |-> {"email", "slack"}],
      [channels |-> <<"push", "webhook">>, addressed |-> {} ] }

\* schedule_expression of a task that has none.
NoSchedule == ""

TaskRow(conv, config) ==
    [status |-> "pending", is_active |-> TRUE, conversation_id |-> conv,
     started_at |-> None, completed_at |-> None, last_run_at |-> None,
     error_message |-> NoError, notification_config |-> config,
     user_id |-> "default_user", task_type |-> "delegation",
     schedule_expression |-> NoSchedule, prompt |-> "prompt"]

\* The configuration of a task: what update_task and disable_task edit.
TaskConfiguration(row) ==
    [prompt |-> row.prompt, schedule_expression |-> row.schedule_expression,
     is_active |-> row.is_active]

IdleExec ==
    [pc |-> "idle", task |-> None, agentGiven |-> FALSE, observed |-> "none",
     wasActive |-> FALSE, runnerOk |-> FALSE, invoked |-> 0, writes |-> <<>>,
     error |-> NoError, notified |-> <<>>, configAtStart |-> <<>>]

NewTaskId ==
    CHOOSE t \in Tasks : /\ t \notin DOMAIN tasks
                         /\ \A u \in Tasks : u \notin DOMAIN tasks => t <= u

\* TaskManager._get_pattern_type for a delegation task.
TaskPattern == "delegation"

\* TaskManager.create_task: a conversation, the task row (status pending,
\* active), and the conversation's task_id.
CreateTask(config) ==
    /\ \E t \in Tasks : t \notin DOMAIN tasks
    /\ \E c \in ConvIds : c \notin DOMAIN conversations
    /\ conversations' = conversations @@
         (NewConvId :> [ConversationRow(TaskPattern, "none", "none")
                           EXCEPT !.task_id = NewTaskId])
    /\ tasks' = tasks @@ (NewTaskId :> TaskRow(NewConvId, config))
    /\ UNCHANGED <<messages, exec, notifications, clock, inboundVars, channelVars,
                   scheduler, verifyVars, createVars, runVars, replyVars, workerVars, schedVars>>

\* execute_task, lines 112-114: a task that is not active is skipped.
SkipsNothing(row) == FALSE
SkipsExecution(row) == ~row.is_active

\* execute_task, lines 106-114: load the row; return when it is missing or
\* not active.
ExecuteTaskLoad(e, t, agentGiven) ==
    /\ exec[e].pc = "idle"
    /\ \A e0 \in Execs : e0 < e => exec[e0].pc # "idle"
    /\ exec' = [exec EXCEPT ![e] =
                  IF t \notin DOMAIN tasks
                  THEN [@ EXCEPT !.pc = "returned", !.task = t,
                                 !.agentGiven = agentGiven]
                  ELSE [@ EXCEPT !.pc = IF SkipsExecution(tasks[t]) THEN "returned"
                                        ELSE "mark",
                                 !.task = t, !.agentGiven = agentGiven,
                                 !.observed = tasks[t].status,
                                 !.wasActive = tasks[t].is_active]]
    /\ UNCHANGED <<conversations, messages, tasks, notifications, clock,
                   inboundVars, channelVars,
                   scheduler, verifyVars, createVars, runVars, replyVars, workerVars, schedVars>>

\* execute_task, lines 116-119: status running, started_at stamped, commit.
ExecuteTaskMarkRunning(e) ==
    /\ exec[e].pc = "mark"
    /\ clock' = clock + 1
    /\ tasks' = [tasks EXCEPT ![exec[e].task] =
                   [@ EXCEPT !.status = "running", !.started_at = clock']]
    /\ exec' = [exec EXCEPT ![e] =
                  [@ EXCEPT !.pc = "run", !.writes = Append(@, "running"),
                            !.configAtStart =
                                <<TaskConfiguration(tasks[exec[e].task])>>]]
    /\ UNCHANGED <<conversations, messages, notifications, inboundVars, channelVars,
                   scheduler, verifyVars, createVars, runVars, replyVars, workerVars, schedVars>>

\* The names services/agent_executor.py defines at module level.
AgentExecutorModuleNames == {"AgentExecutor"}

\* execute_task passes self.db, an AsyncSession, to AgentExecutor as its
\* conversation_manager; these are the methods of a session the services
\* use, and add_message is not a method of AsyncSession.
SessionMethods == {"get", "add", "commit", "refresh", "execute", "flush"}

\* Lines 121-132: what the try block raises before, or while, the runner
\* runs.  The import of create_default_agent fails when no agent was
\* passed; execute_async calls add_message on the object it was given as
\* conversation manager; the runner itself may raise.
RunError(agentGiven, runnerOk) ==
    IF ~agentGiven /\ "create_default_agent" \notin AgentExecutorModuleNames
    THEN "ImportError"
    ELSE IF "add_message" \notin SessionMethods
    THEN "AttributeError"
    ELSE IF ~runnerOk THEN "RunnerError"
    ELSE NoError

\* Whether execute_async got as far as calling the runner.
RunnerInvoked(error) == error \in {NoError, "RunnerError"}

\* execute_task, line 149: the status the except block writes.
StatusOnExceptionBlocked(error) == "blocked"
StatusOnException(error) == "failed"

\* execute_task, lines 121-152: the try block and the status write that
\* follows it: completed (completed_at and last_run_at stamped,
\* error_message cleared) when nothing was raised, failed (completed_at
\* stamped, error_message recorded) otherwise.
ExecuteTaskRun(e, runnerOk) ==
    /\ exec[e].pc = "run"
    /\ LET t == exec[e].task
           error == RunError(exec[e].agentGiven, runnerOk)
           conv == tasks[t].conversation_id
           by == <<"exec", e>>
       IN /\ clock' = clock + 1
          /\ messages' =
               IF ~RunnerInvoked(error) THEN messages
               ELSE IF error = NoError
               THEN messages \o <<MessageRow(conv, "user", <<0>>, by),
                                  MessageRow(conv, "assistant", <<1>>, by)>>
               ELSE Append(messages, MessageRow(conv, "user", <<0>>, by))
          /\ tasks' = [tasks EXCEPT ![t] =
                         IF error = NoError
                         THEN [@ EXCEPT !.status = "completed",
                                        !.completed_at = clock',
                                        !.last_run_at = clock',
                                        !.error_message = NoError]
                         ELSE [@ EXCEPT !.status = StatusOnException(error),
                                        !.completed_at = clock',
                                        !.error_message = error]]
          /\ exec' = [exec EXCEPT ![e] =
                        [@ EXCEPT !.pc = "notify", !.runnerOk = runnerOk,
                                  !.error = error,
                                  !.invoked = IF RunnerInvoked(error)
                                              THEN @ + 1 ELSE @,
                                  !.writes = Append(@, IF error = NoError
                                                       THEN "completed"
                                                       ELSE StatusOnException(error))]]
    /\ UNCHANGED <<conversations, notifications, inboundVars, channelVars,
                   scheduler, verifyVars, createVars, runVars, replyVars, workerVars, schedVars>>

\* NotificationService._send_notifications: the branches of the loop body.
Deliverable(config, channel) ==
    channel \in {"email", "slack", "webhook"} /\ channel \in config.addressed

\* The try/except inside the loop body: an exception of one send is logged
\* there, so whether the k-th channel is attempted does not depend on the
\* sends before it.
AttemptedUntilFailure(config, k, failing) ==
    /\ Deliverable(config, config.channels[k])
    /\ \A j \in 1..(k - 1) : ~(Deliverable(config, config.channels[j])
                                 /\ config.channels[j] \in failing)
Attempted(config, k, failing) == Deliverable(config, config.channels[k])

RECURSIVE SendNotifications(_, _, _, _, _)
\* One notification attempt per deliverable channel, in the order of the
\* list; an attempt that raises is logged and the loop goes on.
SendNotifications(config, k, kind, failing, by) ==
    IF k = 0 THEN <<>>
    ELSE SendNotifications(config, k - 1, kind, failing, by) \o
         (IF Attempted(config, k, failing)
          THEN <<[kind |-> kind, channel |-> config.channels[k],
                  ok |-> config.channels[k] \notin failing, by |-> by]>>
          ELSE <<>>)

\* execute_task, lines 141-143 and 154-156: notify_task_complete or
\* notify_task_failed with the task as just written.
ExecuteTaskNotify(e, failing) ==
    /\ exec[e].pc = "notify"
    /\ LET config == tasks[exec[e].task].notification_config
       IN /\ failing \subseteq config.addressed
          /\ notifications' = notifications \o
               SendNotifications(config, Len(config.channels),
                                 IF exec[e].error = NoError THEN "complete"
                                 ELSE "failed",
                                 failing, e)
    /\ exec' = [exec EXCEPT ![e] =
                  [@ EXCEPT !.pc = "returned",
                            !.notified = Append(@, IF exec[e].error = NoError
                                                   THEN "complete" ELSE "failed")]]
    /\ UNCHANGED <<conversations, messages, tasks, clock, inboundVars, channelVars,
                   scheduler, verifyVars, createVars, runVars, replyVars, workerVars, schedVars>>

\* WorkerSettings.job_timeout: the queue cancels a job that is still
\* running.  The coroutine gets CancelledError at the await it is suspended
\* in; CancelledError is not an Exception, so the handler at line 145 does
\* not run and execute_task ends there.
CancelJob(e) ==
    /\ exec[e].pc \in {"mark", "run", "notify"}
    /\ exec' = [exec EXCEPT ![e] = [@ EXCEPT !.pc = "cancelled"]]
    /\ UNCHANGED <<conversations, messages, tasks, notifications, clock,
                   scheduler, inboundVars, channelVars, verifyVars, createVars, runVars, replyVars, workerVars, schedVars>>

\* TaskManager.disable_task: is_active false.
DisableTask(t) ==
    /\ t \in DOMAIN tasks
    /\ tasks[t].is_active
    /\ tasks' = [tasks EXCEPT ![t] = [@ EXCEPT !.is_active = FALSE]]
    /\ UNCHANGED <<conversations, messages, exec, notifications, clock,
                   inboundVars, channelVars,
                   scheduler, verifyVars, createVars, runVars, replyVars, workerVars, schedVars>>

NextTask ==
    \/ \E config \in NotificationConfigs : CreateTask(config)
    \/ \E e \in Execs, t \in Tasks, agentGiven \in BOOLEAN :
          ExecuteTaskLoad(e, t, agentGiven)
    \/ \E e \in Execs : ExecuteTaskMarkRunning(e)
    \/ \E e \in Execs, runnerOk \in BOOLEAN : ExecuteTaskRun(e, runnerOk)
    \/ \E e \in Execs, failing \in SUBSET {"email", "slack", "webhook"} :
          ExecuteTaskNotify(e, failing)
    \/ \E e \in Execs : CancelJob(e)
    \/ \E t \in Tasks : DisableTask(t)

\* The steps of one execute_task call that the event loop runs once the
\* awaited operation has completed.
ExecuteTaskStep(e) ==
    \/ ExecuteTaskMarkRunning(e)
    \/ \E runnerOk \in BOOLEAN : ExecuteTaskRun(e, runnerOk)
    \/ \E failing \in SUBSET {"email", "slack", "webhook"} :
          ExecuteTaskNotify(e, failing)


\* An optional argument: <<>> for None, <<v>> for the value v.
Optional(values) == {<<>>} \cup {<<v>> : v \in values}

\* The value a field has after "if argument is not None: field = argument".
Updated(old, argument) == IF argument = <<>> THEN old ELSE argument[1]

\* TaskManager.update_task: every argument that is not None is written,
\* whatever the status of the task.
UpdateTask(t, prompt, schedule_expression, is_active) ==
    /\ t \in DOMAIN tasks
    /\ tasks' = [tasks EXCEPT ![t] =
                   [@ EXCEPT !.prompt = Updated(@, prompt),
                             !.schedule_expression = Updated(@, schedule_expression),
                             !.is_active = Updated(@, is_active)]]
    /\ tasks' # tasks
    /\ UNCHANGED <<conversations, messages, exec, notifications, clock,
                   inboundVars, channelVars, scheduler, verifyVars, createVars, runVars, replyVars, workerVars, schedVars>>

\* The task lifecycle for tasks that notify by email and slack, with a
\* runner that does not raise and notification channels that deliver.
NextDisable ==
    \/ \E config \in {c \in NotificationConfigs : c.addressed # {}} :
          CreateTask(config)
    \/ \E e \in Execs, t \in Tasks, agentGiven \in BOOLEAN :
          ExecuteTaskLoad(e, t, agentGiven)
    \/ \E e \in Execs : ExecuteTaskMarkRunning(e)
    \/ \E e \in Execs : ExecuteTaskRun(e, TRUE)
    \/ \E e \in Execs : ExecuteTaskNotify(e, {})
    \/ \E e \in Execs : CancelJob(e)
    \/ \E t \in Tasks : DisableTask(t)

\* The operations that write a task row: create_task, the status writes of
\* execute_task, an edit of the prompt by update_task, and disable_task.
NextStatus ==
    \/ \E config \in {c \in NotificationConfigs : c.addressed # {}} :
          CreateTask(config)
    \/ \E e \in Execs, t \in Tasks : ExecuteTaskLoad(e, t, FALSE)
    \/ \E e \in Execs : ExecuteTaskMarkRunning(e)
    \/ \E e \in Execs : ExecuteTaskRun(e, TRUE)
    \/ \E e \in Execs : ExecuteTaskNotify(e, {})
    \/ \E t \in Tasks : UpdateTask(t, <<"edited">>, <<>>, <<>>)
    \/ \E t \in Tasks : DisableTask(t)

\* Executions and their notification fan-out, where any send may fail.
NextNotify ==
    \/ \E config \in NotificationConfigs : CreateTask(config)
    \/ \E e \in Execs, t \in Tasks : ExecuteTaskLoad(e, t, FALSE)
    \/ \E e \in Execs : ExecuteTaskMarkRunning(e)
    \/ \E e \in Execs : ExecuteTaskRun(e, TRUE)
    \/ \E e \in Execs, failing \in SUBSET {"email", "slack", "webhook"} :
          ExecuteTaskNotify(e, failing)

\* The same lifecycle with configuration edits.
NextConfiguration ==
    \/ NextDisable
    \/ \E t \in Tasks, prompt \in Optional({"edited"}),
          schedule_expression \in Optional({"0 9 * * *"}),
          is_active \in Optional(BOOLEAN) :
             UpdateTask(t, prompt, schedule_expression, is_active)

(***************************************************************************)
(* create_task, commit by commit: the conversation, the task row, the      *)
(* link from the conversation to the task.                                 *)
(***************************************************************************)

TaskTypes == {"delegation", "scheduled", "triggered"}

\* TaskManager._get_pattern_type.
PatternType(taskType) ==
    CASE taskType = "delegation" -> "delegation"
      [] taskType = "scheduled" -> "scheduled"
      [] taskType = "triggered" -> "triggered"
      [] OTHER -> "delegation"

IdleCreate == [pc |-> "idle", task_type |-> "none", conv |-> None, task |-> None]

\* Primary key of a new TaskDB row (default=uuid4): a value no row has.
FreshTaskId ==
    CHOOSE t \in Creates : /\ t \notin DOMAIN tasks
                           /\ \A u \in Creates : u \notin DOMAIN tasks => t <= u

\* create_task, lines 59-62: create_conversation commits the conversation.
CreateTaskConversation(c, taskType) ==
    /\ creating[c].pc = "idle"
    /\ \A c0 \in Creates : c0 < c => creating[c0].pc # "idle"
    /\ \E id \in ConvIds : id \notin DOMAIN conversations
    /\ conversations' = conversations @@
         (NewConvId :> ConversationRow(PatternType(taskType), "none", "none"))
    /\ creating' = [creating EXCEPT ![c] =
                      [@ EXCEPT !.pc = "conversation", !.task_type = taskType,
                                !.conv = NewConvId]]
    /\ UNCHANGED <<messages, inboundVars, channelVars, taskVars, verifyVars, runVars, replyVars, workerVars, schedVars>>

\* create_task, lines 65-86: the task row, committed with the id of the
\* conversation just created.
CreateTaskRow(c, config) ==
    /\ creating[c].pc = "conversation"
    /\ tasks' = tasks @@
         (FreshTaskId :> [TaskRow(creating[c].conv, config)
                             EXCEPT !.task_type = creating[c].task_type])
    /\ creating' = [creating EXCEPT ![c] =
                      [@ EXCEPT !.pc = "row", !.task = FreshTaskId]]
    /\ UNCHANGED <<conversations, messages, exec, notifications, clock, scheduler,
                   inboundVars, channelVars, verifyVars, runVars, replyVars, workerVars, schedVars>>

\* create_task, lines 88-94: values(task_id=task_db.id).
NoTaskLink(t) == None
TaskLink(t) == t

\* create_task, lines 88-96: the conversation's task_id, committed; the
\* task is returned.
CreateTaskLink(c) ==
    /\ creating[c].pc = "row"
    /\ conversations' = [conversations EXCEPT ![creating[c].conv] =
                           [@ EXCEPT !.task_id = TaskLink(creating[c].task)]]
    /\ creating' = [creating EXCEPT ![c] = [@ EXCEPT !.pc = "returned"]]
    /\ UNCHANGED <<messages, inboundVars, channelVars, taskVars, verifyVars, runVars, replyVars, workerVars, schedVars>>

\* A commit of create_task raises (the database is unreachable): the call
\* ends there and what was committed before stays.
CreateTaskFail(c) ==
    /\ creating[c].pc \in {"conversation", "row"}
    /\ creating' = [creating EXCEPT ![c] = [@ EXCEPT !.pc = "raised"]]
    /\ UNCHANGED <<conversations, messages, inboundVars, channelVars, taskVars,
                   verifyVars, runVars, replyVars, workerVars, schedVars>>

NextCreate ==
    \/ \E c \in Creates, taskType \in TaskTypes : CreateTaskConversation(c, taskType)
    \/ \E c \in Creates, config \in NotificationConfigs : CreateTaskRow(c, config)
    \/ \E c \in Creates : CreateTaskLink(c)
    \/ \E c \in Creates : CreateTaskFail(c)

(***************************************************************************)
(* Scheduled tasks: workers/scheduler.py and the application start-up.     *)
(***************************************************************************)

\* user_id is a query parameter of POST /tasks.
UserIds == {"", "default_user"}

ScheduleExpressions == {NoSchedule, "0 9 * * *"}

\* TaskManager.create_task for a scheduled task;
\* _get_pattern_type(SCHEDULED) is "scheduled".  Nothing on this path calls
\* schedule_task.
CreateScheduledTask(config, userId, expression) ==
    /\ \E t \in Tasks : t \notin DOMAIN tasks
    /\ \E c \in ConvIds : c \notin DOMAIN conversations
    /\ conversations' = conversations @@
         (NewConvId :> [ConversationRow("scheduled", "none", "none")
                           EXCEPT !.task_id = NewTaskId])
    /\ tasks' = tasks @@
         (NewTaskId :> [TaskRow(NewConvId, config)
                           EXCEPT !.user_id = userId, !.task_type = "scheduled",
                                  !.schedule_expression = expression])
    /\ UNCHANGED <<messages, exec, notifications, clock, inboundVars, channelVars,
                   scheduler, verifyVars, createVars, runVars, replyVars, workerVars, schedVars>>

\* list_user_tasks(user_id, task_type, is_active): the rows the query
\* selects.
ListUserTasks(userId, taskType, isActive) ==
    {t \in DOMAIN tasks : /\ tasks[t].user_id = userId
                          /\ tasks[t].task_type = taskType
                          /\ tasks[t].is_active = isActive}

\* The job store of the AsyncIOScheduler.  A job is identified by its id,
\* "task_<task id>", and carries the cron expression of its trigger.
Job(id, cron) == [id |-> id, cron |-> cron]

\* scheduler.get_job(job_id) is not None.
HasJob(store, id) == \E i \in DOMAIN store : store[i].id = id

\* scheduler.remove_job(job_id).
RemoveJob(store, id) == SelectSeq(store, LAMBDA job : job.id # id)

\* scheduler.add_job(..., id=job_id, replace_existing=True): a job with the
\* same id is replaced, otherwise the job is added.
AddJob(store, job) ==
    IF HasJob(store, job.id)
    THEN [i \in DOMAIN store |-> IF store[i].id = job.id THEN job ELSE store[i]]
    ELSE Append(store, job)

\* Cron expressions handed to schedule_task; CronTrigger.from_crontab raises
\* ValueError for a string that does not have five fields.
CronExpressions == {"0 9 * * *", "0 18 * * *", "daily"}
ValidCron(expression) == expression \in {"0 9 * * *", "0 18 * * *"}

\* schedule_task: the job store it leaves.  An existing job is removed
\* first; the trigger is built while the arguments of add_job are
\* evaluated, so an invalid expression raises after the removal.
ScheduleTaskAppending(store, id, cron) == Append(store, Job(id, cron))
ScheduleTaskStore(store, id, cron) ==
    LET cleared == IF HasJob(store, id) THEN RemoveJob(store, id) ELSE store
    IN IF ValidCron(cron) THEN AddJob(cleared, Job(id, cron)) ELSE cleared

\* unschedule_task: the job store it leaves.
UnscheduleTaskStore(store, id) ==
    IF HasJob(store, id) THEN RemoveJob(store, id) ELSE store

\* Task ids passed to schedule_task and unschedule_task, which do not look
\* the task up: the ids of the task rows and one id that has no row.
JobTaskIds == 1..(MaxTasks + 1)

NoSchedulerCall ==
    [op |-> "none", id |-> None, cron |-> "", found |-> FALSE, result |-> "none"]

\* schedule_task(task_id, cron_expression).
ScheduleTask(t, cron) ==
    /\ scheduler' = ScheduleTaskStore(scheduler, t, cron)
    /\ scheduling' = [op |-> "schedule_task", id |-> t, cron |-> cron,
                      found |-> HasJob(scheduler, t),
                      result |-> IF ValidCron(cron) THEN "returned" ELSE "ValueError"]
    /\ UNCHANGED <<conversations, messages, tasks, exec, notifications, clock,
                   inboundVars, channelVars, verifyVars, createVars, runVars,
                   replyVars, workerVars>>

\* unschedule_task(task_id).
UnscheduleTask(t) ==
    /\ scheduler' = UnscheduleTaskStore(scheduler, t)
    /\ scheduling' = [op |-> "unschedule_task", id |-> t, cron |-> "",
                      found |-> HasJob(scheduler, t), result |-> "returned"]
    /\ UNCHANGED <<conversations, messages, tasks, exec, notifications, clock,
                   inboundVars, channelVars, verifyVars, createVars, runVars,
                   replyVars, workerVars>>

RECURSIVE ScheduleAll(_, _)
\* The loop of load_scheduled_tasks over the listed tasks, newest first.
ScheduleAll(store, ids) ==
    IF ids = {} THEN store
    ELSE LET t == CHOOSE x \in ids : \A y \in ids : y <= x
         IN ScheduleAll(ScheduleTaskStore(store, t, tasks[t].schedule_expression),
                        ids \ {t})

\* lifespan start-up: a new process has an empty in-memory job store;
\* load_scheduled_tasks lists the active scheduled tasks of user_id "" and
\* calls schedule_task for those with a schedule expression.  No execution
\* of the previous process is still in flight.
LoadScheduledTasks ==
    /\ \A e \in Execs : exec[e].pc \in {"idle", "returned", "cancelled"}
    /\ scheduler' = ScheduleAll(<<>>, {t \in ListUserTasks("", "scheduled", TRUE) :
                                        tasks[t].schedule_expression # NoSchedule})
    /\ scheduling' = [NoSchedulerCall EXCEPT !.op = "load_scheduled_tasks",
                                             !.result = "returned"]
    /\ <<scheduler', scheduling'>> # <<scheduler, scheduling>>
    /\ UNCHANGED <<conversations, messages, tasks, exec, notifications, clock,
                   inboundVars, channelVars, verifyVars, createVars, runVars, replyVars, workerVars>>

\* execute_scheduled_task: the job of task t fires and calls execute_task
\* without an agent.
ExecuteScheduledTask(e, t) ==
    /\ HasJob(scheduler, t)
    /\ ExecuteTaskLoad(e, t, FALSE)

\* Scheduled tasks of any user, the start-up load, and direct calls of
\* schedule_task and unschedule_task.
NextJobs ==
    \/ \E userId \in UserIds, expression \in ScheduleExpressions :
          CreateScheduledTask(CHOOSE c \in NotificationConfigs : c.addressed # {},
                              userId, expression)
    \/ \E t \in Tasks : DisableTask(t)
    \/ LoadScheduledTasks
    \/ \E t \in JobTaskIds, cron \in CronExpressions : ScheduleTask(t, cron)
    \/ \E t \in JobTaskIds : UnscheduleTask(t)

NextSchedule ==
    \/ NextTask
    \/ \E config \in NotificationConfigs, userId \in UserIds,
          expression \in ScheduleExpressions :
             CreateScheduledTask(config, userId, expression)
    \/ LoadScheduledTasks
    \/ \E e \in Execs, t \in Tasks : ExecuteScheduledTask(e, t)

(***************************************************************************)
(* The runners: capabilities, validate_execution and the two execution     *)
(* paths of MockRunner, PydanticAIRunner and ClaudeAgentSDKRunner.         *)
(***************************************************************************)

RunnerKinds == {"mock", "pydantic_ai", "claude_sdk"}

\* The capabilities property of each runner class; MockRunner advertises
\* streaming when it was built with should_stream.
Capabilities(kind, shouldStream) ==
    [supports_streaming |-> IF kind = "mock" THEN shouldStream ELSE TRUE,
     supports_conversation_history |-> TRUE]

\* Every value of the two fields validate_execution reads.
AllCapabilities ==
    [supports_streaming : BOOLEAN, supports_conversation_history : BOOLEAN]

\* message_history arguments: None, the empty list, a list of one message.
Histories == Optional({<<>>, <<"m">>})

\* Python truth value of a message_history argument.
HistoryGiven(history) == history # <<>> /\ history[1] # <<>>

\* AgentRunner.validate_execution: the error it raises, or "ok".
ValidateStreamingOnly(caps, streaming, history) ==
    IF streaming /\ ~caps.supports_streaming
    THEN "RunnerNotCapableError" ELSE "ok"
ValidateExecution(caps, streaming, history) ==
    IF streaming /\ ~caps.supports_streaming
    THEN "RunnerNotCapableError"
    ELSE IF HistoryGiven(history) /\ ~caps.supports_conversation_history
    THEN "RunnerNotCapableError"
    ELSE "ok"

NoExecution == [kind |-> "none", pc |-> "idle"]

\* validate_execution called on a runner with the given capabilities.
CallValidateExecution(caps, streaming, history) ==
    /\ execution' = [kind |-> "base", pc |-> "returned", caps |-> caps,
                     streaming |-> streaming, history |-> history,
                     log |-> <<"validate_execution",
                               ValidateExecution(caps, streaming, history)>>]
    /\ UNCHANGED <<conversations, messages, inboundVars, channelVars, taskVars,
                   verifyVars, createVars, replyVars, workerVars, schedVars>>

\* execute_streaming or execute_non_streaming of a runner is called (and,
\* for a stream, first iterated).
CallRunner(kind, shouldStream, streaming, history) ==
    /\ execution.pc # "entered" /\ execution.pc # "producing"
    /\ execution' = [kind |-> kind, pc |-> "entered",
                     caps |-> Capabilities(kind, shouldStream),
                     streaming |-> streaming, history |-> history, log |-> <<>>]
    /\ UNCHANGED <<conversations, messages, inboundVars, channelVars, taskVars,
                   verifyVars, createVars, replyVars, workerVars, schedVars>>

\* The first statement of the method: MockRunner and PydanticAIRunner await
\* validate_execution; ClaudeAgentSDKRunner raises NotImplementedError.
RunnerEnter ==
    /\ execution.pc = "entered"
    /\ LET result == ValidateExecution(execution.caps, execution.streaming,
                                       execution.history)
       IN execution' =
            IF execution.kind = "claude_sdk"
            THEN [execution EXCEPT !.pc = "raised",
                                   !.log = Append(@, "NotImplementedError")]
            ELSE [execution EXCEPT !.pc = IF result = "ok" THEN "producing"
                                          ELSE "raised",
                                   !.log = @ \o <<"validate_execution", result>>]
    /\ UNCHANGED <<conversations, messages, inboundVars, channelVars, taskVars,
                   verifyVars, createVars, replyVars, workerVars, schedVars>>

\* The outputs a call has produced.
Outputs(log) == {i \in DOMAIN log : log[i] = "output"}

\* The body after validation: a stream yields chunks and ends, or the model
\* call raises; the non-streaming path returns its one result or raises.
RunnerProduce(outcome) ==
    /\ execution.pc = "producing"
    /\ outcome = "output" => Cardinality(Outputs(execution.log)) < MaxChunks
    /\ outcome = "end" => execution.streaming
    /\ execution' =
         [execution EXCEPT
            !.pc = CASE outcome = "raise" -> "raised"
                     [] outcome = "end" -> "returned"
                     [] OTHER -> IF execution.streaming THEN "producing"
                                 ELSE "returned",
            !.log = IF outcome = "end" THEN @
                    ELSE Append(@, IF outcome = "raise" THEN "RunnerExecutionError"
                                   ELSE "output")]
    /\ UNCHANGED <<conversations, messages, inboundVars, channelVars, taskVars,
                   verifyVars, createVars, replyVars, workerVars, schedVars>>

NextRunner ==
    \/ \E caps \in AllCapabilities, streaming \in BOOLEAN, history \in Histories :
          CallValidateExecution(caps, streaming, history)
    \/ \E kind \in RunnerKinds, shouldStream, streaming \in BOOLEAN,
          history \in Histories :
             CallRunner(kind, shouldStream, streaming, history)
    \/ RunnerEnter
    \/ \E outcome \in {"output", "end", "raise"} : RunnerProduce(outcome)

(***************************************************************************)
(* Security verification: verify_request of the Slack and email adapters.  *)
(* An HMAC is modelled by the pair of its key and its message, so two      *)
(* signatures are equal exactly when both are equal.                       *)
(***************************************************************************)

SlackFreshnessWindow == 300
EmailFreshnessWindow == 900

FreshnessWindow(adapterName) ==
    IF adapterName = "slack" THEN SlackFreshnessWindow ELSE EmailFreshnessWindow

\* The secret the adapter was constructed with: signing_secret of the Slack
\* adapter, mailgun_api_key of the email adapter.
AdapterSecret(adapterName) ==
    IF adapterName = "slack" THEN "signing_secret" ELSE "mailgun_api_key"

Secrets == {"signing_secret", "mailgun_api_key", "other_secret"}

Hmac(secret, msg) == <<secret, msg>>

\* A request that carries no signature.
NoSignature == Hmac("none", <<0, "none">>)

Abs(x) == IF x < 0 THEN -x ELSE x

\* Values of time.time() and the distances of the request timestamp from it.
NowValues == {1000}
TimestampOffsets == {-901, -900, -301, -300, 0, 300, 301, 900, 901}
TimestampFormats == {"int", "invalid", "missing"}
Payloads == {"p1", "p2"}

\* SlackChannelAdapter.verify_request.
SlackVerifyRequest(secret, request, now) ==
    IF request.format # "int" THEN FALSE
    ELSE IF Abs(now - request.timestamp) > SlackFreshnessWindow THEN FALSE
    ELSE Hmac(secret, <<request.timestamp, request.payload>>) = request.signature

\* EmailChannelAdapter.verify_request.
EmailVerifyRequest(secret, request, now) ==
    IF request.format = "missing" \/ request.signature = NoSignature THEN FALSE
    ELSE IF request.format # "int" THEN FALSE
    ELSE IF now - request.timestamp > EmailFreshnessWindow THEN FALSE
    ELSE request.signature = Hmac(secret, <<request.timestamp, request.payload>>)

VerifyRequestResult(adapterName, request, now) ==
    IF adapterName = "slack"
    THEN SlackVerifyRequest(AdapterSecret(adapterName), request, now)
    ELSE EmailVerifyRequest(AdapterSecret(adapterName), request, now)

\* One call of adapter.verify_request on a request whose signature, if any,
\* was computed by the holder of some secret over some timestamp and payload.
VerifyRequest(adapterName, request, now) ==
    /\ verification' = [adapter_name |-> adapterName, request |-> request,
                        now |-> now,
                        result |-> VerifyRequestResult(adapterName, request, now)]
    /\ UNCHANGED <<conversations, messages, inboundVars, channelVars, taskVars,
                   createVars, runVars, replyVars, workerVars, schedVars>>

\* The signatures a request with the given timestamp may carry: none, or
\* one computed with any secret over that timestamp or over the current
\* time, and over any payload.
Signatures(timestamp, now) ==
    {NoSignature} \cup
    {Hmac(k, <<t, p>>) : k \in Secrets, t \in {timestamp, now}, p \in Payloads}

NextVerify ==
    \E adapterName \in AdapterNames, now \in NowValues,
       off \in TimestampOffsets, format \in TimestampFormats :
        \E signature \in Signatures(now + off, now) :
            VerifyRequest(adapterName,
                          [format |-> format, timestamp |-> now + off,
                           payload |-> "p1", signature |-> signature],
                          now)

NoVerification == [adapter_name |-> "none"]

(***************************************************************************)
(* Initial state: empty tables, nothing registered, nothing in flight.     *)
(***************************************************************************)
Init ==
    /\ registry = {}
    /\ conversations = <<>>
    /\ mappings = {}
    /\ messages = <<>>
    /\ req = [r \in Requests |-> IdleRequest]
    /\ adapter = UnconfiguredAdapter
    /\ runner = UnconfiguredRunner
    /\ call = [c \in Calls |-> IdleCall]
    /\ tasks = <<>>
    /\ exec = [e \in Execs |-> IdleExec]
    /\ notifications = <<>>
    /\ clock = 0
    /\ scheduler = <<>>
    /\ scheduling = NoSchedulerCall
    /\ verification = NoVerification
    /\ creating = [c \in Creates |-> IdleCreate]
    /\ execution = NoExecution
    /\ reply = IdleSend
    /\ worker = WorkerDown
    /\ jobs = [j \in Jobs |-> IdleJob]

\* Replies to conversations: a conversation opened through the API, the
\* Slack interactions that pass verification (the requests whose mapping
\* rows get committed) and send_to_adapter.
NextReply ==
    \/ \E name \in AdapterNames : RegisterAdapter(name)
    \/ OpenConversation
    \/ \E r \in Requests, thread \in Threads :
          Arrive(r, "slack_interactions", "ok", thread)
    \/ \E r \in Requests : Verify(r, TRUE)
    \/ \E r \in Requests, uuid \in ConvIds : Interact(r, uuid)
    \/ \E r \in Requests, commitOnClose \in BOOLEAN : EndRequest(r, commitOnClose)
    \/ \E conv \in ConvIds, adapterName \in AdapterNames, ok \in BOOLEAN :
          SendToAdapter(conv, adapterName, ok)

SpecInbound == Init /\ [][NextInbound]_vars
SpecJobs == Init /\ [][NextJobs]_vars
SpecStatus == Init /\ [][NextStatus]_vars
SpecWorker == Init /\ [][NextWorker]_vars
SpecReply == Init /\ [][NextReply]_vars
SpecChannel == Init /\ [][NextChannel]_vars
SpecOrchestrator == Init /\ [][NextOrchestrator]_vars
SpecSession == Init /\ [][NextSession]_vars
SpecRunner == Init /\ [][NextRunner]_vars
SpecVerify == Init /\ [][NextVerify]_vars
SpecTask == Init /\ [][NextTask]_vars
FairSpecTask == SpecTask /\ \A e \in Execs : WF_vars(ExecuteTaskStep(e))
SpecDisable == Init /\ [][NextDisable]_vars
SpecCreate == Init /\ [][NextCreate]_vars
SpecNotify == Init /\ [][NextNotify]_vars
SpecConfiguration == Init /\ [][NextConfiguration]_vars
SpecSchedule == Init /\ [][NextSchedule]_vars

(***************************************************************************)
(* Properties of the inbound path.                                         *)
(***************************************************************************)

EventKinds == {"email_webhook", "slack_events"}

\* handle_incoming_event of request r was called with an event that the
\* adapter parsed, and the call has ended.
HandledEvent(r) ==
    /\ req[r].kind \in EventKinds
    /\ req[r].lookup # "none"
    /\ req[r].pc \in {"ended", "done"}

SameThread(r1, r2) ==
    /\ AdapterOf(req[r1].kind) = AdapterOf(req[r2].kind)
    /\ req[r1].thread = req[r2].thread

\* C1: all handle_incoming_event calls whose events parse to the same
\* (adapter, thread) return the same conversation id; only the first one
\* creates a conversation and a mapping row.
C1_RepeatedDeliveryReturnsSameConversation ==
    \A r1, r2 \in Requests :
        (HandledEvent(r1) /\ HandledEvent(r2) /\ SameThread(r1, r2)) =>
            /\ req[r1].hres = "returned"
            /\ req[r2].hres = "returned"
            /\ req[r1].conv = req[r2].conv
            /\ (r1 < r2 => ~req[r2].created /\ ~req[r2].inserted)

\* C2: no two rows of the mapping table, committed or flushed, hold the
\* same (adapter name, external thread id).
C2_MappingKeyUnique ==
    \A row1, row2 \in AllMappingRows :
        SameKey(row1, row2.adapter_name, row2.thread_id) => row1 = row2

\* A committed row holds a key and a second insert for that key, by an event
\* or by an interaction callback, was rejected.
C2_Witness ==
    \E row \in mappings : \E r \in Requests :
        /\ r # row.by
        /\ req[r].error = "IntegrityError"
        /\ AdapterOf(req[r].kind) = row.adapter_name
        /\ req[r].thread = row.thread_id
        /\ req[r].conv \in DOMAIN conversations

\* C3: of two calls that interleaved after both lookups missed, exactly one
\* inserts the mapping; the other ends by returning the conversation id of
\* the inserted row and raises nothing.
C3_RaceLoserReturnsWinnersConversation ==
    \A r1, r2 \in Requests :
        (/\ r1 # r2
         /\ HandledEvent(r1) /\ HandledEvent(r2) /\ SameThread(r1, r2)
         /\ req[r1].raced /\ req[r2].raced
         /\ req[r1].inserted) =>
            /\ ~req[r2].inserted
            /\ req[r2].hres = "returned"
            /\ req[r2].conv = req[r1].conv

(***************************************************************************)
(* Properties of the webhook endpoints (SpecInbound).                      *)
(***************************************************************************)

MessagesOfRequest(r) == {i \in DOMAIN messages : messages[i].by = <<"req", r>>}

\* C13: a request to email_webhook or slack_events has created no
\* conversation, stored no mapping row and added no message unless the
\* adapter's verify_request returned true for it beforehand.
C13_NoStateBeforeVerification ==
    \A r \in Requests :
        (/\ req[r].kind \in EventKinds
         /\ \/ req[r].created
            \/ req[r].inserted
            \/ MessagesOfRequest(r) # {}) => req[r].verified

\* C15: once the adapter is configured, the reply of email_webhook and
\* slack_events is a 2xx acknowledgement, also when signature verification
\* fails, when the event cannot be parsed and when processing raises.
C15_AlwaysAcknowledged ==
    \A r \in Requests :
        (/\ req[r].kind \in EventKinds
         /\ req[r].configured
         /\ req[r].pc = "done") => req[r].status \in 200..299


(***************************************************************************)
(* Properties of security verification (SpecVerify).                       *)
(***************************************************************************)

\* C14: verify_request returns true only if the presented signature is the
\* HMAC, under the adapter's own secret, of the presented timestamp and
\* payload, and the timestamp is within the adapter's freshness window of
\* now, in the past or in the future.
C14_VerifiedOnlyIfAuthenticAndFresh ==
    (verification.adapter_name # "none" /\ verification.result) =>
        LET q == verification.request
        IN /\ q.signature = Hmac(AdapterSecret(verification.adapter_name),
                                 <<q.timestamp, q.payload>>)
           /\ Abs(verification.now - q.timestamp) <=
                 FreshnessWindow(verification.adapter_name)


(***************************************************************************)
(* Properties of the runners (SpecRunner).                                 *)
(***************************************************************************)

\* C27: validate_execution raises RunnerNotCapableError exactly when
\* streaming is requested and the runner does not support streaming, or a
\* non-empty history is supplied and the runner does not support
\* conversation history, and returns normally otherwise.  A runner that
\* produces output has called it first and it returned normally; when it
\* raised, the call ends with that error and no output.
C27_ValidatedBeforeAnyOutput ==
    LET notCapable ==
            \/ /\ execution.streaming
               /\ ~execution.caps.supports_streaming
            \/ /\ execution.history \notin {<<>>, <<<<>>>>}
               /\ ~execution.caps.supports_conversation_history
        validated == /\ Len(execution.log) >= 2
                     /\ execution.log[1] = "validate_execution"
    IN /\ execution.kind = "base" =>
             /\ notCapable => execution.log[2] = "RunnerNotCapableError"
             /\ ~notCapable => execution.log[2] = "ok"
       /\ (execution.kind \in RunnerKinds /\ Outputs(execution.log) # {}) =>
             /\ validated
             /\ execution.log[2] = "ok"
             /\ ~notCapable
             /\ \A i \in Outputs(execution.log) : i > 2
       /\ (execution.kind \in RunnerKinds /\ validated /\ notCapable) =>
             /\ execution.log = <<"validate_execution", "RunnerNotCapableError">>
             /\ execution.pc = "raised"

\* MockRunner built without streaming is asked to stream: it validates,
\* raises and yields nothing.
C27_Witness ==
    /\ execution.kind = "mock"
    /\ execution.streaming
    /\ HistoryGiven(execution.history)
    /\ execution.pc = "raised"
    /\ execution.log = <<"validate_execution", "RunnerNotCapableError">>

(***************************************************************************)
(* Properties of the channel-aware orchestrator path (SpecChannel).        *)
(***************************************************************************)

LogOps(c, op) == {i \in DOMAIN call[c].log : call[c].log[i].op = op}

Deliveries(c) == LogOps(c, "send_message") \cup LogOps(c, "stream_message_chunk")

RECURSIVE DeliveredUpTo(_, _)
\* The in-order concatenation of every text handed to the channel by call c
\* in the first k entries of its log.
DeliveredUpTo(c, k) ==
    IF k = 0 THEN <<>>
    ELSE DeliveredUpTo(c, k - 1) \o
         (IF k \in Deliveries(c) THEN call[c].log[k].text ELSE <<>>)

Delivered(c) == DeliveredUpTo(c, Len(call[c].log))

FailedDeliveries(c) == {i \in Deliveries(c) : ~call[c].log[i].ok}

\* C4: execute_with_channel_context never calls stream_message_chunk when
\* the adapter's descriptor has supports_streaming false, and never calls
\* add_reaction when it has supports_reactions false, whatever methods the
\* adapter object implements.
C4_NeverCallsUnadvertisedFacet ==
    \A c \in Calls : \A i \in DOMAIN call[c].log :
        /\ call[c].log[i].op = "stream_message_chunk" => adapter.supports_streaming
        /\ call[c].log[i].op = "add_reaction" => adapter.supports_reactions

\* C5: when the adapter or the runner does not advertise streaming, a call
\* never calls execute_streaming or stream_message_chunk, calls
\* execute_non_streaming and send_message at most once each, and a call that
\* returned has called execute_non_streaming exactly once and then
\* send_message exactly once, with the complete result.
C5_NonStreamingPath ==
    (adapter.configured /\ (~adapter.supports_streaming \/ ~runner.supports_streaming)) =>
        \A c \in Calls :
            /\ LogOps(c, "execute_streaming") = {}
            /\ LogOps(c, "stream_message_chunk") = {}
            /\ Cardinality(LogOps(c, "execute_non_streaming")) <= 1
            /\ Cardinality(LogOps(c, "send_message")) <= 1
            /\ call[c].pc = "returned" =>
                 \E i, j \in DOMAIN call[c].log :
                    /\ i < j
                    /\ LogOps(c, "execute_non_streaming") = {i}
                    /\ LogOps(c, "send_message") = {j}
                    /\ call[c].log[i].ok /\ call[c].log[j].ok
                    /\ call[c].log[j].text = CompleteResult(call[c].pulled)

C5_Witness ==
    /\ ~adapter.supports_streaming /\ adapter.streaming_capable
    /\ runner.supports_streaming
    /\ \E c \in Calls : /\ call[c].pc = "returned"
                        /\ call[c].pulled >= 2
                        /\ Cardinality(LogOps(c, "send_message")) = 1

\* The streaming loop of call c has run to the end of a stream of at least
\* one chunk, with both descriptors advertising streaming.
StreamedToEnd(c) ==
    /\ adapter.supports_streaming /\ runner.supports_streaming
    /\ call[c].streaming /\ call[c].pulled >= 1
    /\ call[c].pc \in {"persist", "returned"}

\* C6: when both descriptors advertise streaming and the runner yields
\* chunks c1..cn (n >= 1), the call sends c1 through send_message exactly
\* once, then c2..cn in order through stream_message_chunk, n-1 calls each
\* keyed to the id the first send returned; add_reaction is called only
\* after the last chunk was delivered and only if the adapter's descriptor
\* has supports_reactions.
C6_StreamingDeliveryOrder ==
    \A c \in Calls : StreamedToEnd(c) =>
        LET log == call[c].log
            chunks == LogOps(c, "stream_message_chunk")
        IN /\ \E i \in DOMAIN log :
                 /\ LogOps(c, "send_message") = {i}
                 /\ log[i].text = ChunkAt(1)
                 /\ Cardinality(chunks) = call[c].pulled - 1
                 /\ \A j \in chunks :
                       /\ i < j
                       /\ log[j].id = log[i].id
                       /\ log[j].text =
                            ChunkAt(1 + Cardinality({k \in chunks : k <= j}))
           /\ \A r \in LogOps(c, "add_reaction") :
                 /\ adapter.supports_reactions
                 /\ \A j \in Deliveries(c) : j < r

AssistantRows(c) ==
    {i \in DOMAIN messages : /\ messages[i].by = <<"call", c>>
                             /\ messages[i].role = "assistant"}

\* C7: on either path, a call that returned has persisted exactly one
\* assistant message, as its last step after every send to the channel
\* completed, and its content is the complete result: the in-order
\* concatenation of all chunks.  A call that has not returned has persisted
\* no assistant message, so none is persisted between chunks.
C7_SingleAssistantMessageAfterSends ==
    \A c \in Calls :
        /\ call[c].pc # "returned" =>
              AssistantRows(c) = {} /\ LogOps(c, "add_message_assistant") = {}
        /\ call[c].pc = "returned" =>
              /\ LogOps(c, "add_message_assistant") = {Len(call[c].log)}
              /\ \A j \in Deliveries(c) : call[c].log[j].ok
              /\ Cardinality(AssistantRows(c)) = 1
              /\ \A i \in AssistantRows(c) :
                    /\ messages[i].conversation_id = call[c].conv
                    /\ messages[i].content = CompleteResult(call[c].pulled)
                    /\ call[c].pulled >= 1 => messages[i].content = Delivered(c)

C7_Witness ==
    \E c \in Calls : /\ call[c].pc = "returned"
                     /\ call[c].streaming
                     /\ call[c].pulled >= 2
                     /\ Cardinality(LogOps(c, "stream_message_chunk")) >= 1
                     /\ AssistantRows(c) # {}

(***************************************************************************)
(* Properties of all orchestrator paths (SpecOrchestrator).                *)
(***************************************************************************)

UserRows(c) ==
    {i \in DOMAIN messages : /\ messages[i].by = <<"call", c>>
                             /\ messages[i].role = "user"}

\* C16: on every orchestrator path (execute_sync, execute_async,
\* execute_with_channel_context) the user message of a call is persisted
\* before the assistant message that answers it: in every reachable state
\* each assistant message is preceded, in the same conversation, by the user
\* message of the same call, also when two calls on one conversation
\* interleave.
C16_UserMessageBeforeAssistantMessage ==
    \A c \in Calls : \A i \in AssistantRows(c) :
        \E j \in UserRows(c) :
            /\ j < i
            /\ messages[j].conversation_id = messages[i].conversation_id

\* Two calls on different paths interleave on one conversation: both user
\* messages are persisted before either assistant message.
C16_Witness ==
    \E c1, c2 \in Calls :
        /\ c1 # c2
        /\ call[c1].conv = call[c2].conv
        /\ call[c1].path # call[c2].path
        /\ call[c1].pc = "returned" /\ call[c2].pc = "returned"
        /\ \A i \in AssistantRows(c1) \cup AssistantRows(c2) :
              \A j \in UserRows(c1) \cup UserRows(c2) : j < i

\* C26: every runner session entered by an orchestrator path is released
\* exactly once on every exit path: the sessions held are exactly those of
\* the calls inside their session block, so a call that has ended, by
\* return, by a runner exception or by an adapter send exception, holds
\* none.
C26_SessionReleasedOnEveryExit ==
    runner.sessions = Cardinality(InSession)

\* One call ended by a runner exception mid-stream, one by an adapter send
\* exception, and no session is held.
C26_Witness ==
    \E c, d \in Calls :
        /\ call[c].pc = "raised" /\ call[d].pc = "raised"
        /\ call[c].pulled >= 1 /\ FailedDeliveries(c) = {}
        /\ LogOps(c, "execute_streaming") # {}
        /\ FailedDeliveries(d) # {}
        /\ runner.sessions = 0

\* The runner raised during call c: execute_non_streaming raised, or the
\* stream raised when the next chunk was requested (the call ended with an
\* exception and every channel call it made had succeeded).
RunnerFailed(c) ==
    \/ \E i \in LogOps(c, "execute_non_streaming") : ~call[c].log[i].ok
    \/ /\ call[c].pc = "raised"
       /\ call[c].streaming
       /\ \A i \in DOMAIN call[c].log : call[c].log[i].ok

StoredMappings(conv, adapterName) ==
    {row \in mappings : row.conversation_id = conv /\ row.adapter_name = adapterName}

Rejected ==
    {r \in Requests : /\ req[r].kind = "slack_events"
                      /\ req[r].shape = "malformed"
                      /\ req[r].configured
                      /\ req[r].pc \notin {"idle", "verify", "parse"}
                      /\ req[r].status # 401}

\* C30: a request whose event receive_message rejects as malformed ends
\* handle_incoming_event with the ValueError and leaves the stored state as
\* it was: it creates no conversation, writes no mapping row, flushed or
\* committed, and adds no message.
C30_MalformedEventChangesNoState ==
    \A r \in Rejected :
        /\ req[r].pc \in {"ended", "done"}
        /\ req[r].hres = "raised" /\ req[r].error = "ValueError"
        /\ req[r].lookup = "none" /\ req[r].conv = None
        /\ ~req[r].created /\ ~req[r].inserted
        /\ \A row \in AllMappingRows : row.by # r
        /\ \A i \in DOMAIN messages : messages[i].by # <<"req", r>>

\* A rejected event has been answered while the store holds a conversation
\* another request created.
C30_Witness ==
    \E r \in Rejected :
        /\ req[r].pc = "done"
        /\ \E r2 \in Requests \ {r} : req[r2].created

\* C31: the adapter objects registered in the worker do not change while
\* a job is being processed: for every job in progress the registry still
\* holds, under every name, the object it held when the job had finished
\* its own call of initialize_adapters.
C31_RegistryReadOnlyWhileProcessing ==
    \A j \in Jobs :
        jobs[j].pc = "running" => worker.adapters = jobs[j].registered[1]

\* The calls whose streaming send is in progress.
Sending == {c \in Calls : call[c].streaming /\ call[c].pc \in {"pull", "deliver", "complete"}}

\* C32: every entry of the Slack adapter's _streaming_messages belongs to
\* exactly one streaming send that is still in progress and holds chunks of
\* that send only; once the send has ended its entry is gone.
C32_BufferEntryLivesForOneSend ==
    \A id \in DOMAIN adapter.streaming_messages :
        /\ Cardinality({c \in Sending : call[c].message_id = id}) = 1
        /\ \A c \in Sending :
              call[c].message_id = id =>
                  Len(adapter.streaming_messages[id]) <= Len(call[c].full_response)

\* C33: no task ever has status blocked: no execution writes it, and no
\* blocked notification is sent.
C33_NoTaskIsEverBlocked ==
    /\ \A t \in DOMAIN tasks : tasks[t].status # "blocked"
    /\ \A e \in Execs :
          /\ \A i \in DOMAIN exec[e].writes : exec[e].writes[i] # "blocked"
          /\ \A i \in DOMAIN exec[e].notified : exec[e].notified[i] # "blocked"
    /\ \A i \in DOMAIN notifications : notifications[i].kind # "blocked"

\* An execution went from running into the except block, wrote its status
\* and sent its notification, and update_task has edited the task's prompt.
C33_Witness ==
    \E e \in Execs :
        /\ exec[e].pc = "returned"
        /\ Len(exec[e].writes) = 2
        /\ exec[e].notified # <<>>
        /\ \E i \in DOMAIN notifications : notifications[i].by = e
        /\ tasks[exec[e].task].prompt = "edited"

\* C34: once a request that went through handle_incoming_event has ended,
\* the conversation it created has a committed mapping row for the
\* request's (adapter, thread), whether the handler returned or raised.
C34_CreatedConversationIsMapped ==
    \A r \in Requests :
        (req[r].kind \in {"email_webhook", "slack_events"}
            /\ req[r].created /\ req[r].pc = "done") =>
            \E row \in mappings :
                /\ row.conversation_id = req[r].conv
                /\ SameKey(row, AdapterOf(req[r].kind), req[r].thread)

\* C36: after a call has completed a streaming send of two or more chunks,
\* the text the adapter accumulated under the message id of the send is the
\* concatenation of all the chunks, which is also the content of the
\* assistant message the call persisted.
C36_BufferHoldsWholeResponse ==
    \A c \in Calls :
        (call[c].pc = "returned" /\ call[c].streaming /\ call[c].pulled >= 2) =>
            /\ call[c].message_id \in DOMAIN adapter.streaming_messages
            /\ adapter.streaming_messages[call[c].message_id] = CompleteResult(call[c].pulled)
            /\ \A i \in AssistantRows(c) :
                  messages[i].content = adapter.streaming_messages[call[c].message_id]

\* C37: a run of load_scheduled_tasks leaves a job in the scheduler for
\* every task of type scheduled that is active and has a schedule
\* expression, whichever user owns it.
C37_StartupLoadsEveryScheduledTask ==
    [][(scheduling'.op = "load_scheduled_tasks"
          /\ <<scheduler', scheduling'>> # <<scheduler, scheduling>>) =>
          \A t \in DOMAIN tasks :
              (tasks[t].task_type = "scheduled" /\ tasks[t].is_active
                  /\ tasks[t].schedule_expression # NoSchedule)
                  => HasJob(scheduler', t)]_vars

\* The jobs the store holds for a task id.
JobsOf(store, id) == {i \in DOMAIN store : store[i].id = id}

\* C38: the scheduler never holds two jobs for one task id; a schedule_task
\* call that returns leaves exactly one job for its task, with the cron
\* expression of the call, and the jobs of other tasks as they were; an
\* unschedule_task call for a task without a job leaves the store as it was.
C38_AtMostOneJobPerTask ==
    [][/\ \A t \in JobTaskIds : Cardinality(JobsOf(scheduler', t)) <= 1
       /\ (scheduling' # scheduling \/ scheduler' # scheduler) =>
             /\ (scheduling'.op = "schedule_task" /\ scheduling'.result = "returned") =>
                   /\ \A i \in JobsOf(scheduler', scheduling'.id) :
                         scheduler'[i].cron = scheduling'.cron
                   /\ Cardinality(JobsOf(scheduler', scheduling'.id)) = 1
                   /\ \A u \in JobTaskIds \ {scheduling'.id} :
                         {scheduler'[i] : i \in JobsOf(scheduler', u)}
                            = {scheduler[i] : i \in JobsOf(scheduler, u)}
             /\ (scheduling'.op = "unschedule_task"
                    /\ ~HasJob(scheduler, scheduling'.id)) =>
                   scheduler' = scheduler]_vars

\* schedule_task has replaced the job of a task while the store holds the
\* job of another task.
C38_Witness ==
    /\ scheduling.op = "schedule_task"
    /\ scheduling.found
    /\ scheduling.result = "returned"
    /\ Len(scheduler) >= 2
    /\ \E i \in DOMAIN scheduler :
          scheduler[i].id = scheduling.id /\ scheduler[i].cron = scheduling.cron

\* The assistant messages a call has persisted, and its user messages.
AssistantRowsBy(msgs, c) == {i \in DOMAIN msgs : msgs[i].by = <<"call", c>> /\ msgs[i].role = "assistant"}
UserRowsBy(msgs, c) == {i \in DOMAIN msgs : msgs[i].by = <<"call", c>> /\ msgs[i].role = "user"}

\* C39: an execute_sync call whose chunks were consumed to the end has
\* persisted exactly one assistant message, the concatenation of the chunks
\* it yielded; a call whose caller stopped early or whose runner raised has
\* persisted none, and none is persisted before the stream has ended; the
\* user message that was persisted when the call started stays in the
\* conversation at every step.
C39_SyncPersistsOnceAfterFullConsumption ==
    [][/\ \A c \in Calls : call'[c].path = "sync" =>
             /\ call'[c].pc = "returned" =>
                   /\ Cardinality(AssistantRowsBy(messages', c)) = 1
                   /\ \A i \in AssistantRowsBy(messages', c) :
                         /\ messages'[i].content = CompleteResult(call'[c].pulled)
                         /\ messages'[i].conversation_id = call'[c].conv
             /\ call'[c].pc # "returned" => AssistantRowsBy(messages', c) = {}
             /\ (\E i \in DOMAIN call'[c].log :
                    call'[c].log[i].op \in {"stream_raise", "generator_close"}) =>
                   AssistantRowsBy(messages', c) = {}
             /\ \E i \in UserRowsBy(messages', c) :
                   messages'[i].conversation_id = call'[c].conv
       /\ \A i \in DOMAIN messages :
             i \in DOMAIN messages' /\ messages'[i] = messages[i]]_vars

\* One execute_sync call was consumed to the end of at least two chunks and
\* has returned; another one was left after its first chunk, by the caller
\* or by a failure of the runner.
C39_Witness ==
    \E c, d \in Calls :
        /\ call[c].path = "sync" /\ call[c].pc = "returned" /\ call[c].pulled >= 2
        /\ \E i \in DOMAIN call[c].log : call[c].log[i].op = "stream_end"
        /\ call[d].path = "sync" /\ call[d].pc \in {"closed", "raised"}
        /\ call[d].pulled >= 1
        /\ AssistantRowsBy(messages, c) # {}

\* C25: execute_sync invokes the runner's streaming path only when the
\* runner's capabilities advertise streaming: for a runner with
\* supports_streaming false it never calls execute_streaming.
C25_SyncStreamsOnlyIfRunnerStreams ==
    \A c \in Calls :
        (call[c].path = "sync" /\ LogOps(c, "execute_streaming") # {})
            => runner.supports_streaming

(***************************************************************************)
(* Transport failure in the middle of a streaming send (SpecChannel).      *)
(***************************************************************************)

\* C17: if send_message or stream_message_chunk fails during a streaming
\* send, the send is abandoned: the failed call is the last thing the method
\* does with the channel and the runner, so no further chunk is sent, no
\* further chunk is pulled and no completion reaction is attached.
C17_FailedSendAbandonsStream ==
    \A c \in Calls : \A i \in FailedDeliveries(c) :
        /\ i = Len(call[c].log)
        /\ call[c].pc = "raised"
        /\ call[c].streaming => call[c].pulled = Cardinality(Deliveries(c))
        /\ LogOps(c, "add_reaction") = {}

C17_Witness ==
    \E c \in Calls :
        /\ call[c].streaming
        /\ call[c].pc = "raised"
        /\ Cardinality(Deliveries(c)) >= 2
        /\ Cardinality(FailedDeliveries(c)) = 1
        /\ call[c].pulled < MaxChunks

\* C18: if the transport fails in the middle of a streaming send, the
\* assistant text accumulated up to the failure is still persisted as an
\* assistant message of the conversation.
C18_PartialResponsePersisted ==
    \A c \in Calls :
        (call[c].streaming /\ call[c].pc = "raised" /\ FailedDeliveries(c) # {})
            => \E i \in AssistantRows(c) :
                  /\ messages[i].conversation_id = call[c].conv
                  /\ messages[i].content = call[c].full_response

(***************************************************************************)
(* Properties of the task lifecycle (SpecTask).                            *)
(***************************************************************************)

NotificationsBy(e) == {i \in DOMAIN notifications : notifications[i].by = e}

MessagesBy(e) == {i \in DOMAIN messages : messages[i].by = <<"exec", e>>}

IsNoOp(e) ==
    /\ exec[e].writes = <<>>
    /\ exec[e].invoked = 0
    /\ MessagesBy(e) = {}
    /\ NotificationsBy(e) = {}

Ran(e) == exec[e].writes # <<>>

\* C24: create_task creates exactly one new conversation before the task
\* row exists and then links the two 1:1.  In every reachable state the
\* calls that started have created one conversation each, with the pattern
\* tag of the task type; each task refers to one existing conversation; no
\* two tasks refer to the same conversation; and once create_task has
\* returned, the conversation's task link points back to the task.
C24_TaskAndConversationLinkedOneToOne ==
    /\ Cardinality(DOMAIN conversations) =
          Cardinality({c \in Creates : creating[c].pc # "idle"})
    /\ \A t \in DOMAIN tasks :
          /\ tasks[t].conversation_id \in DOMAIN conversations
          /\ conversations[tasks[t].conversation_id].pattern_type =
                PatternType(tasks[t].task_type)
          /\ conversations[tasks[t].conversation_id].task_id \in {None, t}
    /\ \A t, u \in DOMAIN tasks :
          tasks[t].conversation_id = tasks[u].conversation_id => t = u
    /\ \A c \in Creates :
          creating[c].pc = "returned" =>
              /\ creating[c].task \in DOMAIN tasks
              /\ tasks[creating[c].task].conversation_id = creating[c].conv
              /\ conversations[creating[c].conv].task_id = creating[c].task

\* Two create_task calls interleaved, both returned.
C24_Witness ==
    \E c, d \in Creates :
        /\ c # d
        /\ creating[c].pc = "returned" /\ creating[d].pc = "returned"
        /\ creating[c].conv < creating[d].conv
        /\ creating[c].task > creating[d].task

\* An execution that found its task, and found it disabled.
LoadedInactive(e) == exec[e].observed # "none" /\ ~exec[e].wasActive

\* C19: execute_task on a task with is_active false is a no-op: it returns
\* at once without writing status, timestamps or error message, without
\* invoking the runner, without adding a message to the conversation and
\* without sending a notification.
C19_InactiveTaskIsNoOp ==
    \A e \in Execs : LoadedInactive(e) => exec[e].pc = "returned" /\ IsNoOp(e)

C19_Witness ==
    \E e \in Execs : /\ LoadedInactive(e)
                     /\ exec[e].pc = "returned"
                     /\ tasks[exec[e].task].status = "pending"
                     /\ tasks[exec[e].task].started_at = None

\* C21: configuration edits are excluded while a task runs: between an
\* execution's write of running and its write of the terminal status, the
\* prompt, the schedule expression and is_active of the task keep the
\* values they had when the execution wrote running.
C21_NoConfigurationEditWhileRunning ==
    \A e \in Execs :
        exec[e].pc = "run" =>
            <<TaskConfiguration(tasks[exec[e].task])>> = exec[e].configAtStart

\* C20: once disable_task(t) returned, task t has is_active false and the
\* scheduler holds no job for t, so no later tick fires for t.
C20_DisabledTaskHasNoJob ==
    \A t \in DOMAIN tasks : ~tasks[t].is_active => ~HasJob(scheduler, t)

\* C11: every execute_task call that has set its task to running
\* eventually writes completed or failed, also when the queue cancels the
\* job at its timeout.
C11_RunningEventuallyTerminal ==
    \A e \in Execs : Ran(e) ~> (Len(exec[e].writes) >= 2)

\* C12: every execute_task call that ran the task and has ended fired
\* exactly one of notify_task_complete and notify_task_failed, the one that
\* matches the terminal status it wrote; no call fires more than one.
C12_ExactlyOneTerminalNotification ==
    \A e \in Execs :
        /\ Len(exec[e].notified) <= 1
        /\ (Ran(e) /\ exec[e].pc \in {"returned", "cancelled"}) =>
              /\ Len(exec[e].notified) = 1
              /\ Len(exec[e].writes) = 2
              /\ exec[e].notified[1] =
                    (IF exec[e].writes[2] = "completed" THEN "complete"
                     ELSE "failed")

\* The channels of the configuration of the task of execution e, in the
\* order of the list.
ChannelsOf(e) == tasks[exec[e].task].notification_config.channels

\* Whether execution e attempted a send on the given channel.
AttemptedBy(e, channel) ==
    \E i \in NotificationsBy(e) : notifications[i].channel = channel

\* C22: in the notification fan-out each channel's send is attempted
\* independently: when one send fails, the send on every channel later in
\* the list is still attempted, execute_task returns normally, and the
\* terminal status the execution wrote is its last write.
C22_ChannelFailureIsIsolated ==
    \A e \in Execs : \A i \in NotificationsBy(e) :
        ~notifications[i].ok =>
            /\ exec[e].pc = "returned"
            /\ Len(exec[e].writes) = 2
            /\ exec[e].writes[2] \in {"completed", "failed"}
            /\ \A k \in DOMAIN ChannelsOf(e) :
                  Deliverable(tasks[exec[e].task].notification_config,
                              ChannelsOf(e)[k])
                     => AttemptedBy(e, ChannelsOf(e)[k])

\* The first channel of the list failed and the second was still sent to.
C22_Witness ==
    \E e \in Execs : \E i, j \in NotificationsBy(e) :
        /\ i < j
        /\ ~notifications[i].ok
        /\ notifications[j].ok
        /\ exec[e].pc = "returned"
        /\ tasks[exec[e].task].status = "failed"

\* C23: every execution that reached a terminal status and returned has
\* dispatched exactly one notification send for each channel of the task's
\* notification configuration.
C23_OneNotificationPerConfiguredChannel ==
    \A e \in Execs :
        (exec[e].pc = "returned" /\ Ran(e)) =>
            \A k \in DOMAIN ChannelsOf(e) :
                Cardinality({i \in NotificationsBy(e) :
                                notifications[i].channel = ChannelsOf(e)[k]}) = 1

\* C8: execute_task on a task whose status is already completed or failed
\* is a no-op: it writes no status, does not invoke the runner, adds no
\* message to the task's conversation and sends no notification.
C8_TerminalStatusIsNoOp ==
    \A e \in Execs : exec[e].observed \in {"completed", "failed"} => IsNoOp(e)

\* C9: of the executions of one task, at most one sets it to running and
\* the runner is invoked at most once; an execution that found the task
\* already past pending is a no-op.
C9_RunningAtMostOnce ==
    \A t \in DOMAIN tasks :
        LET on == {e \in Execs : exec[e].task = t /\ exec[e].pc # "idle"}
        IN /\ Cardinality({e \in on : exec[e].writes # <<>>
                                      /\ exec[e].writes[1] = "running"}) <= 1
           /\ Cardinality({e \in on : exec[e].invoked > 0}) <= 1
           /\ \A e \in on : exec[e].observed = "running" => IsNoOp(e)

\* C10: an execution that found an active pending task and has returned
\* wrote exactly running then completed when the background run did not
\* raise (completed_at stamped, error message cleared), and exactly running
\* then failed when it raised (completed_at stamped, error message
\* recorded).
C10_PendingRunningThenCompletedOrFailed ==
    \A e \in Execs :
        (exec[e].pc = "returned" /\ exec[e].observed = "pending" /\ exec[e].wasActive) =>
            IF exec[e].runnerOk
            THEN /\ exec[e].writes = <<"running", "completed">>
                 /\ exec[e].error = NoError
            ELSE /\ exec[e].writes = <<"running", "failed">>
                 /\ exec[e].error # NoError

====
